---- MODULE Spec2Model ----
(***************************************************************************)
(* Fleet telemetry and control subsystem of situation-room: the agent      *)
(* gateway and its connection registry, service check result handling and  *)
(* dispatch, the agent's reconnect loop and the agent self-update.         *)
(***************************************************************************)
EXTENDS Integers, Sequences, FiniteSets, Bags, TLC

(***************************************************************************)
(* Bounds of the model.                                                    *)
(***************************************************************************)
MaxConns == 3
MaxHistory == 1
MaxThreshold == 2
MaxResults == 4
MaxHalfHours == 4
MaxTicks == 2
MaxAttempts == 7
MaxRequests == 2
MaxEvents == 2
MaxClock == 5
MaxTokens == 4
MaxBatch == 3
MaxLoopTicks == 2
MaxFrames == 2
MaxAlerts == 2
MaxMinutes == 2

(***************************************************************************)
(* Values shared by the parts of the model.                                *)
(***************************************************************************)
\* Python's None.
None == "None"

Hostnames == {"web1", "web2", "web3"}
Conns == 1..MaxConns

\* Slots for the version requests the server handles at the same time.
Requests == 1..MaxRequests

\* config.monitoring.agent_api_key and a key that differs from it.
AgentApiKey == "key-good"
ApiKeys == {"key-good", "key-bad"}

\* dict.get(key, default) on a JSON object (a function over its keys).
Get(d, k, default) == IF k \in DOMAIN d THEN d[k] ELSE default

\* Python truthiness of an optional string: None and "" are falsy.
Truthy(v) == v # None /\ v # ""

Min(a, b) == IF a <= b THEN a ELSE b

\* Agent._reconnect_delay: its first value and its cap, in seconds.
InitialDelay == 5
MaxDelay == 60

VARIABLES
    \* ---- gateway (backend/app/routers/monitoring.py, websocket_manager.py)
    connections,    \* WebSocketManager._connections: insertion-ordered dict,
                    \* a sequence of [hostname, conn] with distinct hostnames
    pc,             \* position of each connection's handler coroutine
    hname,          \* the handler's local variable hostname
    ws,             \* each transport: "none", "open" or "closed"
    closeCode,      \* the code the gateway closed the transport with, or 0
    agents,         \* hostnames with an Agent row
    regSeq,         \* history: order in which handlers tracked their transport
    authFailed,     \* history: the handler took an authentication-failure exit
    presented,      \* history: the api_key of each connection's first message
    updateHistory,  \* AgentUpdateHistory rows, in insertion order
    \* ---- service checks (backend/app/services/service_check.py)
    now,            \* datetime.utcnow(), in seconds
    checks,         \* service_checks table: check id -> ServiceCheck row
    results,        \* service_check_results table: a bag of rows
    alerts,         \* service_check_alerts table, in insertion order
    lastOp,         \* history: the last result handled, with the row before it
    \* ---- service check scheduler (backend/app/main.py)
    round_robin_index,  \* the scheduler's rotating index
    tickPc,             \* position of service_check_scheduler_task
    ticks,              \* history: iterations of the scheduler loop so far
    connected_agents,   \* the tick's local list of connected hostnames
    groups,             \* the tick's assignments not yet dispatched
    tickAny,            \* history: the unpinned due checks of the tick
    indexAtTick,        \* history: round_robin_index when the tick assigned
    rotation,           \* history: [agents, counts]: the connected list of the
                        \* running ticks since it last changed, and the
                        \* round-robin dispatches to each of its agents since
    sent,               \* history: send_to_agent calls of the tick
    \* ---- agent process (agent/situation-room-agent.py, class Agent)
    running,            \* Agent.running
    reconnect_delay,    \* Agent._reconnect_delay
    agentPc,            \* position of Agent.connect
    outcomes,           \* history: how each connection attempt ended
    waits,              \* history: the delays slept before the retries
    \* ---- agent self-update (class AutoUpdater) and its host's files
    current_version,    \* AutoUpdater.current_version of the running process
    installed,          \* content of install_dir/situation-room-agent.py
    backup,             \* content of situation-room-agent.py.bak, or None
    tmp_file,           \* content of the temporary download file, or None
    deps_runs,          \* history: how often _update_dependencies has run
    update_info,        \* perform_update: the manifest of the attempt
    content,            \* perform_update: the downloaded bytes
    result,             \* perform_update: the result dict
    updPc,              \* position of the update branch of run_loop
    restarting,         \* systemd is restarting the agent service
    restarts,           \* history: restarts of the agent service initiated
    wire,               \* messages sent by the agent, not yet received
    sentResults,        \* history: the result of every update_result sent
    snap,               \* history: the host's state when the attempt began
    \* ---- agent_versions table and the requests that publish to it
    versions,           \* committed rows of agent_versions, by id
    vreq,               \* the version requests in flight, by request slot
    vlock,              \* the request holding the database write lock, or 0
    vpending,           \* the rows as written inside the open transaction
    \* ---- threat_events, country_aggregates and the retention job
    rclock,             \* the server's clock, in half hours
    raw,                \* committed rows of threat_events (a bag)
    agg,                \* committed rows of country_aggregates
    ingested,           \* history: how many events have been recorded
    jobPc,              \* position of monitoring_retention_task
    wakeAt,             \* when the task's sleep ends
    jobCutoff,          \* aggregate_old_events: cutoff
    jobGroups,          \* aggregate_old_events: rows of the grouped SELECT
    jobRaw,             \* threat_events inside the job's transaction
    jobAgg,             \* country_aggregates inside the job's transaction
    jobLock,            \* the job holds the database write lock
    lastJob,            \* history: the tables before the run in progress or just ended
    justEnded,          \* history: the last step was the end of a run
    prevRun,            \* history: the last committed run, if no insert since
    \* ---- WebSocketManager.parse_ufw_log
    log_line,           \* the argument of parse_ufw_log
    parsed,             \* what parse_ufw_log returned: <<>> for None,
                        \* <<entry>> for a UFWLogEntry
    parsePc,            \* "idle", "called" or "returned"
    \* ---- the ufw_logs branch of the message loop
    logs,               \* data.get("logs", []) of the ufw_logs message sent
    persist_fails,      \* per line: whether record_threat_event raises for it
    lineIdx,            \* the position of the for loop in logs
    ingestConn,         \* the connection whose batch it is, 0 before any
    \* ---- a send_json of the scheduler that does not complete
    blockedOn,          \* the hostname the scheduler's send awaits, or None
    \* ---- the periodic background loops (backend/app/main.py, alert_checker.py)
    loopPc,             \* per loop: "sleep", "iteration", "backoff" or "ended"
    loopTicks,          \* history: iterations each loop has begun
    loopRaised,         \* history: an iteration of the loop has raised
    shutdown,           \* the application is shutting down
    \* ---- frames arriving in the gateway's message loop
    lastFrame,          \* history: <<>> or the last frame received and its connection
    framesSeen,         \* history: frames received so far
    \* ---- alert evaluator (backend/app/services/alert_checker.py)
    evalClock,          \* datetime.utcnow(), in minutes
    alertHistory,       \* alert_history table, in insertion order
    evalPc,             \* "idle", "rule" (between rules) or "hosts" (inside one)
    evalRules,          \* _check_all_alerts: the rules still to check
    evalHosts,          \* the hosts the rule's loop has still to look at
    recent_alerts,      \* _check_rule: hostnames of the rule's recent alerts
    lastTrigger,        \* history: <<>> or the _trigger_alert call of the last step
    \* ---- agents table (backend/app/models/monitoring.py, class Agent)
    agentRows,          \* hostname -> [status, last_seen], last_seen in minutes
    \* ---- one run of AutoUpdater.check_for_update on version strings
    versionCheck,       \* [server_version, current_version, outcome]
    \* ---- the firewall log, the agent's UFWLogReader and what it has sent
    ufw,                \* [lines, inode, last_position, reader_inode, conn, sent]
    \* ---- quiet hours of the alert loop (AlertSettings, AlertChecker._run_loop)
    quiet               \* [enabled, start, end, hour, last]

gatewayVars == <<connections, pc, hname, ws, closeCode, agents, regSeq,
                 authFailed, presented, updateHistory>>

checkVars == <<now, checks, results, alerts, lastOp>>

schedVars == <<round_robin_index, tickPc, ticks, connected_agents, groups,
               tickAny, indexAtTick, rotation, sent>>

agentVars == <<running, reconnect_delay, agentPc, outcomes, waits>>
updateVars == <<current_version, installed, backup, tmp_file, deps_runs,
                update_info, content, result, updPc, restarting, restarts,
                wire, sentResults, snap>>

versionVars == <<versions, vreq, vlock, vpending>>

retentionVars == <<rclock, raw, agg, ingested, jobPc, wakeAt, jobCutoff, jobGroups,
                   jobRaw, jobAgg, jobLock, lastJob, justEnded, prevRun>>

parseVars == <<log_line, parsed, parsePc>>
ingestVars == <<logs, persist_fails, lineIdx, ingestConn>>
stallVars == <<blockedOn>>
loopVars == <<loopPc, loopTicks, loopRaised, shutdown>>
frameVars == <<lastFrame, framesSeen>>
evalVars == <<evalClock, alertHistory, evalPc, evalRules, evalHosts,
              recent_alerts, lastTrigger>>

\* The background loops, the frames of the message loop, the evaluator.
offlineVars == <<agentRows>>

\* The agents table and the agent's own files.
compareVars == <<versionCheck>>

\* The agent's own state outside its connection and its update.
readerVars == <<ufw>>

quietVars == <<quiet>>

moreVars == <<compareVars, readerVars, quietVars>>

extraVars == <<offlineVars, moreVars>>

\* What the agent's own steps leave alone.
nonMoreVars ==
    <<gatewayVars, checkVars, schedVars, agentVars, updateVars, versionVars,
      retentionVars, parseVars, ingestVars, stallVars, loopVars, frameVars,
      evalVars, offlineVars>>

laterVars == <<loopVars, frameVars, evalVars, extraVars>>

\* The server's other tables and their jobs.
storeVars == <<versionVars, retentionVars, parseVars, ingestVars, stallVars,
               laterVars>>

\* What each part of the system leaves alone.
nonGatewayVars == <<checkVars, schedVars, agentVars, updateVars, storeVars>>
nonCheckVars == <<gatewayVars, schedVars, agentVars, updateVars, storeVars>>
nonSchedVars == <<gatewayVars, agentVars, updateVars, storeVars>>
nonAgentVars == <<gatewayVars, checkVars, schedVars, updateVars, storeVars>>
nonUpdateVars == <<checkVars, schedVars, agentVars, storeVars>>
coreVars == <<gatewayVars, checkVars, schedVars, agentVars, updateVars>>
nonVersionVars == <<coreVars, retentionVars, parseVars, ingestVars, stallVars,
                    laterVars>>
nonRetentionVars == <<coreVars, versionVars, parseVars, ingestVars, stallVars,
                      laterVars>>
nonParseVars == <<coreVars, versionVars, retentionVars, ingestVars, stallVars,
                  laterVars>>
\* What the ufw_logs branch leaves alone: all but pc, the threat_events table
\* and its own position.
nonIngestVars ==
    <<connections, hname, ws, closeCode, agents, regSeq, authFailed, presented,
      updateHistory, checkVars, schedVars, agentVars, updateVars, versionVars,
      parseVars, rclock, agg, ingested, jobPc, wakeAt, jobCutoff, jobGroups,
      jobRaw, jobAgg, jobLock, lastJob, justEnded, prevRun, stallVars,
      laterVars>>

vars == <<connections, pc, hname, ws, closeCode, agents, regSeq, authFailed,
          presented, updateHistory, now, checks, results, alerts, lastOp,
          round_robin_index, tickPc, ticks, connected_agents, groups, tickAny,
          indexAtTick, rotation, sent, running, reconnect_delay, agentPc, outcomes, waits,
          current_version, installed, backup, tmp_file, deps_runs, update_info,
          content, result, updPc, restarting, restarts, wire, sentResults,
          snap, versions, vreq, vlock, vpending, rclock, raw, agg, ingested,
          jobPc, wakeAt, jobCutoff, jobGroups, jobRaw, jobAgg, jobLock, lastJob,
          justEnded, prevRun, log_line, parsed,
          parsePc, logs, persist_fails, lineIdx, ingestConn, blockedOn,
          loopPc, loopTicks, loopRaised, shutdown, lastFrame, framesSeen,
          evalClock, alertHistory, evalPc, evalRules, evalHosts, recent_alerts,
          lastTrigger, agentRows, versionCheck, ufw, quiet>>

(***************************************************************************)
(* Connection registry: WebSocketManager._connections is a Python dict,    *)
(* which keeps insertion order.                                            *)
(***************************************************************************)
DictKeys(d) == {d[i].hostname : i \in 1..Len(d)}

DictHas(d, h) == h \in DictKeys(d)

DictIndex(d, h) == CHOOSE i \in 1..Len(d) : d[i].hostname = h

DictGet(d, h) == d[DictIndex(d, h)].conn

\* d[h] = c: an existing key keeps its position, a new key goes last.
DictSet(d, h, c) ==
    IF DictHas(d, h)
    THEN [d EXCEPT ![DictIndex(d, h)] = [hostname |-> h, conn |-> c]]
    ELSE Append(d, [hostname |-> h, conn |-> c])

\* del d[h]
DictDel(d, h) == SelectSeq(d, LAMBDA e : e.hostname # h)

\* WebSocketManager.verify_api_key: equality of the two SHA-256 digests.
Sha256Key(k) == <<"sha256", k>>

\* Mutant: every key is accepted.
verify_api_key_Any(api_key) == TRUE

verify_api_key(api_key) == Sha256Key(api_key) = Sha256Key(AgentApiKey)

\* WebSocketManager.disconnect
disconnect(d, h) == IF DictHas(d, h) THEN DictDel(d, h) ELSE d

\* Mutant: every hostname counts as connected.
is_agent_connected_Always(h) == TRUE

\* WebSocketManager.is_agent_connected
is_agent_connected(h) == DictHas(connections, h)

\* WebSocketManager.get_connected_agents: the hostnames in dict order.
get_connected_agents == [i \in 1..Len(connections) |-> connections[i].hostname]

(***************************************************************************)
(* First messages a client may send.                                       *)
(***************************************************************************)
AuthMsgs ==
    {[type |-> t] : t \in {"auth", "ping"}}
    \cup {[type |-> "auth", hostname |-> h] : h \in Hostnames}
    \cup {[type |-> "auth", api_key |-> k] : k \in ApiKeys}
    \cup {[type |-> t, hostname |-> h, api_key |-> k] :
            t \in {"auth", "ping"}, h \in Hostnames \cup {""}, k \in ApiKeys}

(***************************************************************************)
(* agent_websocket: one handler coroutine per connection.                  *)
(***************************************************************************)
\* websocket.accept(), then the handler waits in receive_json().
Accept(c) ==
    /\ UNCHANGED nonGatewayVars
    /\ pc[c] = "idle"
    /\ pc' = [pc EXCEPT ![c] = "await_auth"]
    /\ ws' = [ws EXCEPT ![c] = "open"]
    /\ UNCHANGED <<connections, hname, closeCode, agents, regSeq, authFailed,
                   presented, updateHistory>>

\* An exit of the handler through websocket.close(code) and return.
CloseAndReturn(c, code, host) ==
    /\ ws' = [ws EXCEPT ![c] = "closed"]
    /\ closeCode' = [closeCode EXCEPT ![c] = code]
    /\ hname' = [hname EXCEPT ![c] = host]
    /\ authFailed' = [authFailed EXCEPT ![c] = TRUE]
    /\ pc' = [pc EXCEPT ![c] = "finally"]

\* The first message arrives: the checks before the agent is registered.
ReceiveAuth(c, msg) ==
    /\ UNCHANGED nonGatewayVars
    /\ pc[c] = "await_auth"
    /\ ws[c] = "open"
    /\ LET hostname == Get(msg, "hostname", None)
           api_key == Get(msg, "api_key", None)
       IN  IF Get(msg, "type", None) # "auth"
           THEN CloseAndReturn(c, 4000, hname[c])
           ELSE IF ~Truthy(hostname) \/ ~Truthy(api_key)
           THEN CloseAndReturn(c, 4001, hostname)
           ELSE IF ~verify_api_key(api_key)
           THEN CloseAndReturn(c, 4001, hostname)
           ELSE /\ hname' = [hname EXCEPT ![c] = hostname]
                /\ pc' = [pc EXCEPT ![c] = "register"]
                /\ UNCHANGED <<ws, closeCode, authFailed>>
    /\ presented' = [presented EXCEPT ![c] = Get(msg, "api_key", None)]
    /\ UNCHANGED <<connections, agents, regSeq, updateHistory>>

\* register_agent, then the transport is tracked and auth_success is sent.
RegisterAgent(c) ==
    /\ UNCHANGED nonGatewayVars
    /\ pc[c] = "register"
    /\ agents' = agents \cup {hname[c]}
    /\ connections' = DictSet(connections, hname[c], c)
    /\ regSeq' = Append(regSeq, c)
    /\ pc' = [pc EXCEPT ![c] = "loop"]
    /\ UNCHANGED <<hname, ws, closeCode, authFailed, presented, updateHistory>>

\* The update_result branch of the message loop: the row it adds.
UpdateHistoryRow(hostname, data) ==
    LET success == Get(data, "success", FALSE)
    IN  [ agent_hostname |-> hostname,
          from_version   |-> Get(data, "from_version", "unknown"),
          to_version     |-> Get(data, "to_version", "unknown"),
          success        |-> success,
          error_message  |-> IF ~success THEN Get(data, "error", None) ELSE None ]

\* One pass of the message loop on message data.
message_loop(c, data) ==
    /\ pc[c] = "loop"
    /\ ws[c] = "open"
    /\ IF Get(data, "type", None) = "update_result"
       THEN /\ Len(updateHistory) < MaxHistory
            /\ updateHistory' = Append(updateHistory, UpdateHistoryRow(hname[c], data))
       ELSE UNCHANGED updateHistory
    /\ UNCHANGED <<connections, pc, hname, ws, closeCode, agents, regSeq, authFailed,
                   presented>>

\* A client's message is received and handled.
HandleMessage(c, data) ==
    /\ UNCHANGED nonGatewayVars
    /\ message_loop(c, data)

\* receive_json or send_json raises: the client went away or the transport broke.
TransportError(c) ==
    /\ UNCHANGED nonGatewayVars
    /\ pc[c] \in {"await_auth", "loop"}
    /\ ws' = [ws EXCEPT ![c] = "closed"]
    /\ pc' = [pc EXCEPT ![c] = "finally"]
    /\ UNCHANGED <<connections, hname, closeCode, agents, regSeq, authFailed,
                   presented, updateHistory>>

\* The finally block: if hostname: await ws_manager.disconnect(hostname).
Finally(c) ==
    /\ UNCHANGED nonGatewayVars
    /\ pc[c] = "finally"
    /\ connections' = IF Truthy(hname[c]) THEN disconnect(connections, hname[c])
                      ELSE connections
    /\ pc' = [pc EXCEPT ![c] = "done"]
    /\ UNCHANGED <<hname, ws, closeCode, agents, regSeq, authFailed,
                   presented, updateHistory>>

\* Messages a client may send in the message loop.
LoopMsgs ==
    {[type |-> t] : t \in {"ping", "bogus"}}
    \cup {[type |-> "update_result", success |-> TRUE, from_version |-> "1.0.0",
           to_version |-> "1.1.0"]}

NextGateway ==
    \/ \E c \in Conns : Accept(c)
    \/ \E c \in Conns, msg \in AuthMsgs : ReceiveAuth(c, msg)
    \/ \E c \in Conns : RegisterAgent(c)
    \/ \E c \in Conns, data \in LoopMsgs : HandleMessage(c, data)
    \/ \E c \in Conns : TransportError(c)
    \/ \E c \in Conns : Finally(c)

(***************************************************************************)
(* Service checks: the cached run state of a check and result handling.    *)
(***************************************************************************)
CheckIds == {1, 2}

\* ServiceCheckCreate: failure_threshold (ge=1), alert_interval_hours (ge=1).
Thresholds == 1..MaxThreshold
AlertIntervalHours == {1, 2}

HalfHour == 30 * 60
SecondsPerHour == 60 * 60

\* A nullable DateTime column that holds no time.
NoTime == 0 - 1

\* A port column that is NULL.
NoPort == 0 - 1

\* create_check: the row of a new check.
NewCheck(id, threshold, hours, interval, agent) ==
    [ id                   |-> id,
      is_enabled           |-> TRUE,
      interval_seconds     |-> interval,
      failure_threshold    |-> threshold,
      alert_interval_hours |-> hours,
      assigned_agent       |-> agent,
      current_status       |-> "unknown",
      consecutive_failures |-> 0,
      last_check_time      |-> NoTime,
      last_success_time    |-> NoTime,
      last_failure_time    |-> NoTime,
      is_alerting          |-> FALSE,
      last_alert_time      |-> NoTime,
      alert_count          |-> 0 ]

\* A ServiceCheckAlert row.
AlertRow(check, type, count, t) ==
    [ check_id |-> check.id, alert_type |-> type,
      consecutive_failures |-> count, alert_time |-> t ]

\* Mutant: the threshold test is off by one.
BelowThreshold_OffByOne(check) ==
    check.consecutive_failures <= check.failure_threshold

\* The threshold test of _check_and_send_failure_alert.
BelowThreshold(check) ==
    check.consecutive_failures < check.failure_threshold

\* Mutant: the re-alert test excludes the boundary.
ReAlertDue_Strict(check, t) ==
    (t - check.last_alert_time) > check.alert_interval_hours * SecondsPerHour

\* The re-alert test of _check_and_send_failure_alert:
\* (now - last_alert_time).total_seconds() / 3600 >= alert_interval_hours.
ReAlertDue(check, t) ==
    (t - check.last_alert_time) >= check.alert_interval_hours * SecondsPerHour

\* _check_and_send_failure_alert at time t: the row after it and the alert
\* rows it adds.
check_and_send_failure_alert(check, t) ==
    IF BelowThreshold(check)
    THEN [check |-> check, added |-> <<>>]
    ELSE LET should_alert ==
                 IF ~check.is_alerting THEN TRUE
                 ELSE IF check.last_alert_time # NoTime THEN ReAlertDue(check, t)
                 ELSE FALSE
             marked == [check EXCEPT !.is_alerting = TRUE]
         IN  IF should_alert
             THEN [ check |-> [marked EXCEPT !.last_alert_time = t,
                                             !.alert_count = @ + 1],
                    added |-> <<AlertRow(check, "failure",
                                         check.consecutive_failures, t)>> ]
             ELSE [check |-> marked, added |-> <<>>]

\* _send_recovery_alert at time t: the alert row it adds.
send_recovery_alert(check, t) == <<AlertRow(check, "recovery", 0, t)>>

\* Mutant: a success leaves the alerting flag set.
RecordSuccess_KeepsAlerting(check, check_time, t) ==
    LET passed == [check EXCEPT !.last_check_time = check_time,
                                !.last_success_time = check_time,
                                !.consecutive_failures = 0,
                                !.current_status = "passing"]
    IN  IF check.is_alerting
        THEN [check |-> passed, added |-> send_recovery_alert(check, t)]
        ELSE [check |-> passed, added |-> <<>>]

\* The success branch of record_result.
RecordSuccess(check, check_time, t) ==
    LET passed == [check EXCEPT !.last_check_time = check_time,
                                !.last_success_time = check_time,
                                !.consecutive_failures = 0,
                                !.current_status = "passing"]
    IN  IF check.is_alerting
        THEN [ check |-> [passed EXCEPT !.is_alerting = FALSE],
               added |-> send_recovery_alert(check, t) ]
        ELSE [check |-> passed, added |-> <<>>]

\* The failure branch of record_result.
RecordFailure(check, check_time, t) ==
    check_and_send_failure_alert(
        [check EXCEPT !.last_check_time = check_time,
                      !.last_failure_time = check_time,
                      !.consecutive_failures = @ + 1,
                      !.current_status = "failing"], t)

\* A ServiceCheckResult row (its check_time is the one the check row keeps as
\* last_check_time).
ResultRow(check_id, agent_hostname, is_success) ==
    [ check_id |-> check_id, agent_hostname |-> agent_hostname,
      is_success |-> is_success ]

\* record_result: the result row is added; the check, when it exists, is
\* updated and its alerts are added, all in one commit.
record_result(check_id, agent_hostname, is_success) ==
    /\ UNCHANGED nonCheckVars
    /\ BagCardinality(results) < MaxResults
    /\ results' = results (+) SetToBag({ResultRow(check_id, agent_hostname, is_success)})
    /\ IF check_id \in DOMAIN checks
       THEN LET out == IF is_success
                       THEN RecordSuccess(checks[check_id], now, now)
                       ELSE RecordFailure(checks[check_id], now, now)
            IN  /\ checks' = [checks EXCEPT ![check_id] = out.check]
                /\ alerts' = alerts \o out.added
                /\ lastOp' = [ id |-> check_id, is_success |-> is_success,
                               before |-> checks[check_id],
                               alertsBefore |-> Len(alerts), at |-> now ]
       ELSE UNCHANGED <<checks, alerts, lastOp>>
    /\ UNCHANGED now

\* Time passes.
AdvanceClock ==
    /\ UNCHANGED nonCheckVars
    /\ now < MaxHalfHours * HalfHour
    /\ now' = now + HalfHour
    /\ UNCHANGED <<checks, results, alerts, lastOp>>

NoOp ==
    [ id |-> 0, is_success |-> FALSE, alertsBefore |-> 0, at |-> 0,
      before |-> NewCheck(0, 1, 1, 300, None) ]

\* The checks table after create_check of each check, nothing run yet.
ChecksStart(definitions) ==
    /\ now = 0
    /\ checks \in definitions
    /\ results = EmptyBag
    /\ alerts = <<>>
    /\ lastOp = NoOp

\* Two checks with the model's default definition (ServiceCheck columns).
DefaultChecks == {[id \in CheckIds |-> NewCheck(id, 2, 6, 300, None)]}

\* Two checks, each threshold and re-alert interval of the bounded ranges.
BoundedChecks ==
    { [id \in CheckIds |-> NewCheck(id, IF id = 1 THEN th ELSE 2,
                                        IF id = 1 THEN 1 ELSE hr, 300, None)] :
      th \in Thresholds, hr \in AlertIntervalHours }

\* No connection yet.
GatewayStart ==
    /\ connections = <<>>
    /\ pc = [c \in Conns |-> "idle"]
    /\ hname = [c \in Conns |-> None]
    /\ ws = [c \in Conns |-> "none"]
    /\ closeCode = [c \in Conns |-> 0]
    /\ agents = {}
    /\ regSeq = <<>>
    /\ authFailed = [c \in Conns |-> FALSE]
    /\ presented = [c \in Conns |-> None]
    /\ updateHistory = <<>>

\* The scheduler task before its first iteration.
SchedulerStart ==
    /\ round_robin_index = 0
    /\ tickPc = "sleep"
    /\ ticks = 0
    /\ connected_agents = <<>>
    /\ groups = <<>>
    /\ tickAny = <<>>
    /\ indexAtTick = 0
    /\ rotation = [agents |-> <<>>, counts |-> <<>>]
    /\ sent = <<>>

\* Agent.__init__
AgentStart ==
    /\ running = TRUE
    /\ reconnect_delay = InitialDelay
    /\ agentPc = "top"
    /\ outcomes = <<>>
    /\ waits = <<>>

\* No update attempt yet; previous is what the .bak file holds.
UpdaterStart(previous) ==
    /\ current_version = "1.0.0"
    /\ installed = "agent-1.0.0"
    /\ backup = previous
    /\ tmp_file = None
    /\ deps_runs = 0
    /\ update_info = <<>>
    /\ content = None
    /\ result = <<>>
    /\ updPc = "idle"
    /\ restarting = FALSE
    /\ restarts = 0
    /\ wire = <<>>
    /\ sentResults = <<>>
    /\ snap = [n |-> 0, installed |-> "agent-1.0.0", backup |-> previous,
               deps_runs |-> 0, current_version |-> "1.0.0", restarts |-> 0]

\* A request slot with no request in it.
NoRequest ==
    [kind |-> "none", pc |-> "idle", id |-> 0, version |-> None,
     is_current |-> FALSE, status |-> 0,
     loaded |-> [is_current |-> FALSE, is_deprecated |-> FALSE]]

\* Versions 1.0.0 (current) and 1.1.0 have been published; no request runs.
VersionsStart ==
    /\ versions = <<[version |-> "1.0.0", is_current |-> TRUE,
                     is_deprecated |-> FALSE],
                    [version |-> "1.1.0", is_current |-> FALSE,
                     is_deprecated |-> FALSE]>>
    /\ vreq = [r \in Requests |-> NoRequest]
    /\ vlock = 0
    /\ vpending = <<>>

\* The clock counts half hours; the retention windows in that unit
\* (config.monitoring.raw_event_retention_days and aggregate_retention_days,
\* scaled down).
TicksPerHour == 1 + 1
RawRetentionTicks == 1 + 0
AggRetentionTicks == 1 + 1 + 1 + 1

\* No run of the retention job has started.
NoJob ==
    [outcome |-> "none", rawBefore |-> EmptyBag, aggBefore |-> {},
     rawLocked |-> EmptyBag, cutoff |-> 0, aggregate_cutoff |-> 0,
     rerun |-> FALSE, undisturbed |-> FALSE,
     prev_cutoff |-> 0, prev_aggregate_cutoff |-> 0]

\* No run has committed, or an event was inserted after the last commit.
NoPrevRun == [quiet |-> FALSE, cutoff |-> 0, aggregate_cutoff |-> 0]

\* Empty tables; the retention task sleeps.
RetentionStart ==
    /\ rclock = 0
    /\ raw = EmptyBag
    /\ agg = {}
    /\ ingested = 0
    /\ jobPc = "sleep"
    /\ wakeAt = TicksPerHour
    /\ jobCutoff = 0
    /\ jobGroups = {}
    /\ jobRaw = EmptyBag
    /\ jobAgg = {}
    /\ jobLock = FALSE
    /\ lastJob = NoJob
    /\ justEnded = FALSE
    /\ prevRun = NoPrevRun

\* A log line as the parser sees it: whether it holds the text
\* "[UFW BLOCK]", how it begins, and its blank-separated KEY=value tokens.
NoLine == [marker |-> FALSE, prefix |-> "other", tokens |-> <<>>]

\* No line has been parsed.
ParserStart ==
    /\ log_line = NoLine
    /\ parsed = <<>>
    /\ parsePc = "idle"

\* The server's other tables before any request or job.
\* No ufw_logs batch has arrived.
IngestStart ==
    /\ logs = <<>>
    /\ persist_fails = <<>>
    /\ lineIdx = 1
    /\ ingestConn = 0

\* The scheduler awaits no send.
StallStart == blockedOn = None

\* The background loops, as create_task and AlertChecker.start leave them:
\* the scheduler and the retention task begin with their sleep, the
\* evaluator with an evaluation.
Loops == {"scheduler", "evaluator", "retention"}

LoopTop(l) == IF l = "evaluator" THEN "iteration" ELSE "sleep"

LoopsStart ==
    /\ loopPc = [l \in Loops |-> LoopTop(l)]
    /\ loopTicks = [l \in Loops |-> IF l = "evaluator" THEN 1 ELSE 0]
    /\ loopRaised = [l \in Loops |-> FALSE]
    /\ shutdown = FALSE

\* No frame has arrived in a message loop.
FramesStart ==
    /\ lastFrame = <<>>
    /\ framesSeen = 0

\* The evaluator is between two passes and no alert has been recorded.
EvaluatorStart ==
    /\ evalClock = 0
    /\ alertHistory = <<>>
    /\ evalPc = "idle"
    /\ evalRules = <<>>
    /\ evalHosts = <<>>
    /\ recent_alerts = {}
    /\ lastTrigger = <<>>

\* No agent has registered.
AgentRowsStart == agentRows = <<>>

\* No version check has been made.
VersionCheckStart ==
    versionCheck = [server_version |-> <<>>, current_version |-> <<>>,
                    outcome |-> "none"]

\* UFWLogReader.__init__ (last_position 0, no inode seen) on an empty log
\* file, the agent connected, nothing sent.
ReaderStart ==
    ufw = [lines |-> 0, inode |-> 1, last_position |-> 0,
           reader_inode |-> <<>>, conn |-> "open", sent |-> <<>>]

\* The settings row as created (quiet hours off, no start, no end), at
\* hour 0 UTC, before an iteration of the alert loop in that hour.
QuietStart ==
    quiet = [enabled |-> FALSE, start |-> <<>>, end |-> <<>>, hour |-> 0,
             last |-> "none"]

MoreStart == VersionCheckStart /\ ReaderStart /\ QuietStart

ExtraStart == AgentRowsStart /\ MoreStart

LaterStart == LoopsStart /\ FramesStart /\ EvaluatorStart /\ ExtraStart

StoreStart ==
    /\ VersionsStart /\ RetentionStart /\ ParserStart /\ IngestStart
    /\ StallStart /\ LaterStart

InitGateway ==
    /\ GatewayStart /\ ChecksStart(DefaultChecks) /\ SchedulerStart
    /\ AgentStart /\ UpdaterStart(None) /\ StoreStart

InitChecks ==
    /\ GatewayStart /\ ChecksStart(BoundedChecks) /\ SchedulerStart
    /\ AgentStart /\ UpdaterStart(None) /\ StoreStart


NextChecks ==
    \/ \E id \in CheckIds \cup {3}, ok \in BOOLEAN : record_result(id, "web1", ok)
    \/ AdvanceClock

SpecGateway == InitGateway /\ [][NextGateway]_vars

SpecChecks == InitChecks /\ [][NextChecks]_vars

(***************************************************************************)
(* Service check scheduler: service_check_scheduler_task and the due and   *)
(* assignment queries it runs.                                             *)
(***************************************************************************)
TickSeconds == 30

\* The Python filter of get_checks_due_for_execution at time t.
Due(check, t) ==
    /\ check.is_enabled
    /\ \/ check.last_check_time = NoTime
       \/ t - check.last_check_time >= check.interval_seconds

\* How SQLite orders a stored TEXT value against a number: every INTEGER or
\* REAL is less than every TEXT, so "text < number" is false.
SqliteTextLessThanNumber == FALSE

\* The WHERE clause of get_checks_due_for_execution on the SQLite database
\* (models/database.py): is_enabled, and last_check_time IS NULL or
\* last_check_time < now - CAST(interval_seconds AS INTEGER) * 1.
\* last_check_time is stored as the text of the datetime and now is bound as
\* such a text; the subtraction turns it into a number (its leading digits,
\* the year, minus the interval), so the comparison is of a text with a
\* number for every row that has a last_check_time.
InWhereClause(check, t) ==
    /\ check.is_enabled
    /\ \/ check.last_check_time = NoTime
       \/ SqliteTextLessThanNumber

\* get_checks_due_for_execution: the ids of the rows the query returns that
\* pass the Python filter, in row order.
get_checks_due_for_execution(t) ==
    SelectSeq([i \in 1..Cardinality(DOMAIN checks) |-> i],
              LAMBDA id : InWhereClause(checks[id], t) /\ Due(checks[id], t))

\* agent_key = check.assigned_agent or 'any'
AgentKey(check) ==
    IF Truthy(check.assigned_agent) THEN check.assigned_agent ELSE "any"

HasGroup(gs, key) == \E i \in 1..Len(gs) : gs[i].key = key

\* assignments[agent_key].append(...) on an insertion-ordered dict.
AddToGroup(gs, key, id) ==
    IF HasGroup(gs, key)
    THEN [i \in 1..Len(gs) |->
            IF gs[i].key = key THEN [gs[i] EXCEPT !.ids = Append(@, id)] ELSE gs[i]]
    ELSE Append(gs, [key |-> key, ids |-> <<id>>])

RECURSIVE GroupChecks(_, _)
GroupChecks(ids, gs) ==
    IF ids = <<>> THEN gs
    ELSE GroupChecks(Tail(ids), AddToGroup(gs, AgentKey(checks[Head(ids)]), Head(ids)))

\* get_check_assignments: the due checks grouped by agent key.
get_check_assignments(t) == GroupChecks(get_checks_due_for_execution(t), <<>>)

\* Mutant: the rotating index is not advanced.
NextIndex_Stuck(index) == index

\* round_robin_index += 1
NextIndex(index) == index + 1

\* Mutant: the first connected agent is picked every time.
PickAgent_First(agentList, index) == agentList[1]

\* connected_agents[round_robin_index % len(connected_agents)]
PickAgent(agentList, index) == agentList[(index % Len(agentList)) + 1]

\* The history of round-robin dispatches: it starts again when a tick finds
\* another connected list than the tick before it, and counts each
\* dispatch to the agent picked.
NewRotation(agentList) ==
    [agents |-> agentList, counts |-> [i \in 1..Len(agentList) |-> 0]]

Counted(rot, agent) ==
    [rot EXCEPT !.counts =
        [i \in 1..Len(rot.agents) |->
            IF rot.agents[i] = agent THEN rot.counts[i] + 1 ELSE rot.counts[i]]]

\* send_to_agent: False when the hostname is not registered or the write
\* raises (written is whether send_json completes).
send_to_agent(hostname, written) == DictHas(connections, hostname) /\ written

\* The ids of the unpinned group of assignments gs.
AnyIds(gs) ==
    IF HasGroup(gs, "any")
    THEN (gs[CHOOSE i \in 1..Len(gs) : gs[i].key = "any"]).ids
    ELSE <<>>

\* sleep(30) returns: the enabled test and the snapshot of connected agents.
TickStart(enabled) ==
    /\ UNCHANGED <<nonSchedVars, checks, results, alerts, lastOp>>
    /\ tickPc = "sleep"
    /\ ticks < MaxTicks
    /\ ticks' = ticks + 1
    /\ now' = now + TickSeconds
    /\ sent' = <<>>
    /\ tickAny' = <<>>
    /\ groups' = <<>>
    /\ IF enabled
       THEN /\ connected_agents' = get_connected_agents
            /\ tickPc' = IF connected_agents' = <<>> THEN "sleep" ELSE "assign"
       ELSE UNCHANGED <<connected_agents, tickPc>>
    /\ rotation' = IF enabled /\ connected_agents' # rotation.agents
                   THEN NewRotation(connected_agents')
                   ELSE rotation
    /\ UNCHANGED <<round_robin_index, indexAtTick>>

\* assignments = await service.get_check_assignments()
TickAssign ==
    /\ UNCHANGED <<nonSchedVars, checkVars>>
    /\ tickPc = "assign"
    /\ groups' = get_check_assignments(now)
    /\ tickAny' = AnyIds(groups')
    /\ indexAtTick' = round_robin_index
    /\ tickPc' = IF groups' = <<>> THEN "sleep" ELSE "dispatch"
    /\ UNCHANGED <<round_robin_index, ticks, connected_agents, rotation, sent>>

\* The assignments left once the head group has given up its first check.
AfterOne(gs) ==
    IF Len(gs[1].ids) = 1 THEN Tail(gs)
    ELSE <<[gs[1] EXCEPT !.ids = Tail(@)]>> \o Tail(gs)

\* One pass of the round-robin loop: the next unpinned check is sent.
DispatchAny(written) ==
    /\ UNCHANGED <<nonSchedVars, checkVars>>
    /\ tickPc = "dispatch"
    /\ groups # <<>>
    /\ groups[1].key = "any"
    /\ LET agent == PickAgent(connected_agents, round_robin_index)
       IN  sent' = Append(sent, [ key |-> "any", to |-> agent,
                                  ids |-> <<groups[1].ids[1]>>,
                                  delivered |-> send_to_agent(agent, written) ])
    /\ rotation' = Counted(rotation,
                           PickAgent(connected_agents, round_robin_index))
    /\ round_robin_index' = NextIndex(round_robin_index)
    /\ groups' = AfterOne(groups)
    /\ tickPc' = IF groups' = <<>> THEN "sleep" ELSE "dispatch"
    /\ UNCHANGED <<ticks, connected_agents, tickAny, indexAtTick>>

\* The checks pinned to one agent: sent in one message if it is connected.
DispatchPinned(written) ==
    /\ UNCHANGED <<nonSchedVars, checkVars>>
    /\ tickPc = "dispatch"
    /\ groups # <<>>
    /\ groups[1].key # "any"
    /\ IF is_agent_connected(groups[1].key)
       THEN sent' = Append(sent, [ key |-> groups[1].key, to |-> groups[1].key,
                                   ids |-> groups[1].ids,
                                   delivered |-> send_to_agent(groups[1].key, written) ])
       ELSE UNCHANGED sent
    /\ groups' = Tail(groups)
    /\ tickPc' = IF groups' = <<>> THEN "sleep" ELSE "dispatch"
    /\ UNCHANGED <<round_robin_index, ticks, connected_agents, tickAny,
                   indexAtTick, rotation>>

\* Checks of the scheduler runs: three unpinned, one pinned to web1; some
\* already run at time 0, one possibly disabled.
SchedulerChecks ==
    { [id \in 1..4 |->
         [NewCheck(id, 2, 6, 60, IF id = 4 THEN "web1" ELSE None)
            EXCEPT !.last_check_time = IF id \in ran THEN 0 ELSE NoTime,
                   !.is_enabled = (id # off)]] :
      ran \in {{}, {1}, {1, 2}}, off \in {0, 3} }

\* The agents of the scheduler runs: one connection per hostname, each past
\* the key check of its auth message.
AgentConns == {1, 2, 3}

HostOfConn(c) == "web" \o ToString(c)

HandlersAuthenticated ==
    /\ connections = <<>>
    /\ pc = [c \in Conns |-> IF c \in AgentConns THEN "register" ELSE "idle"]
    /\ hname = [c \in Conns |-> IF c \in AgentConns THEN HostOfConn(c) ELSE None]
    /\ ws = [c \in Conns |-> IF c \in AgentConns THEN "open" ELSE "none"]
    /\ closeCode = [c \in Conns |-> 0]
    /\ agents = {}
    /\ regSeq = <<>>
    /\ authFailed = [c \in Conns |-> FALSE]
    /\ presented = [c \in Conns |-> IF c \in AgentConns
                              THEN AgentApiKey ELSE None]
    /\ updateHistory = <<>>

InitScheduler ==
    /\ HandlersAuthenticated /\ ChecksStart(SchedulerChecks)
    /\ SchedulerStart /\ AgentStart /\ UpdaterStart(None) /\ StoreStart

NextScheduler ==
    \/ \E c \in Conns : RegisterAgent(c)
    \/ \E c \in Conns : TransportError(c)
    \/ \E c \in Conns : Finally(c)
    \/ \E enabled \in BOOLEAN : TickStart(enabled)
    \/ TickAssign
    \/ \E written \in BOOLEAN : DispatchAny(written)
    \/ \E written \in BOOLEAN : DispatchPinned(written)

SpecScheduler == InitScheduler /\ [][NextScheduler]_vars

(***************************************************************************)
(* Agent process: the reconnect loop of Agent.connect.                     *)
(***************************************************************************)
\* Mutant: the delay doubles without a cap.
NextDelay_NoCap(delay) == delay * 2

\* self._reconnect_delay = min(self._reconnect_delay * 2, 60)
NextDelay(delay) == Min(delay * 2, MaxDelay)

\* Mutant: the loop does not look at the stop flag.
WhileRunning_Forever(flag) == TRUE

\* The condition of "while self.running:".
WhileRunning(flag) == flag

\* while self.running: a new attempt starts, or connect returns.
LoopTest ==
    /\ UNCHANGED nonAgentVars
    /\ agentPc = "top"
    /\ IF WhileRunning(running)
       THEN /\ Len(outcomes) < MaxAttempts
            /\ agentPc' = "connecting"
       ELSE agentPc' = "exited"
    /\ UNCHANGED <<running, reconnect_delay, outcomes, waits>>

\* websockets.connect raises: the server is down or unreachable.
ConnectFails ==
    /\ UNCHANGED nonAgentVars
    /\ agentPc = "connecting"
    /\ outcomes' = Append(outcomes, "connect_failed")
    /\ agentPc' = "after"
    /\ UNCHANGED <<running, reconnect_delay, waits>>

\* The transport is up: the delay is reset and the auth message is sent.
ConnectSucceeds ==
    /\ UNCHANGED nonAgentVars
    /\ agentPc = "connecting"
    /\ reconnect_delay' = InitialDelay
    /\ agentPc' = "authenticating"
    /\ UNCHANGED <<running, outcomes, waits>>

\* The send or the wait for the auth response raises: the server closed the
\* transport (an auth error code), or no response came within 10 seconds.
AuthRaises ==
    /\ UNCHANGED nonAgentVars
    /\ agentPc = "authenticating"
    /\ outcomes' = Append(outcomes, "auth_failed")
    /\ agentPc' = "after"
    /\ UNCHANGED <<running, reconnect_delay, waits>>

\* A response that is not auth_success: connect returns.
AuthUnexpected ==
    /\ UNCHANGED nonAgentVars
    /\ agentPc = "authenticating"
    /\ outcomes' = Append(outcomes, "auth_unexpected")
    /\ agentPc' = "exited"
    /\ UNCHANGED <<running, reconnect_delay, waits>>

\* auth_success arrives: run_loop starts.
AuthSucceeds ==
    /\ UNCHANGED nonAgentVars
    /\ agentPc = "authenticating"
    /\ agentPc' = "connected"
    /\ UNCHANGED <<running, reconnect_delay, outcomes, waits>>

\* run_loop ends: ConnectionClosed is raised, or running is false.
RunLoopEnds ==
    /\ UNCHANGED nonAgentVars
    /\ agentPc = "connected"
    /\ outcomes' = Append(outcomes, "session_closed")
    /\ agentPc' = "after"
    /\ UNCHANGED <<running, reconnect_delay, waits>>

\* if self.running: await asyncio.sleep(self._reconnect_delay)
StartSleep ==
    /\ UNCHANGED nonAgentVars
    /\ agentPc = "after"
    /\ IF running
       THEN /\ waits' = Append(waits, reconnect_delay)
            /\ agentPc' = "sleeping"
       ELSE /\ agentPc' = "top"
            /\ UNCHANGED waits
    /\ UNCHANGED <<running, reconnect_delay, outcomes>>

\* The sleep returns and the delay is doubled, up to the cap.
EndSleep ==
    /\ UNCHANGED nonAgentVars
    /\ agentPc = "sleeping"
    /\ reconnect_delay' = NextDelay(reconnect_delay)
    /\ agentPc' = "top"
    /\ UNCHANGED <<running, outcomes, waits>>

\* Agent.stop, run by the SIGTERM/SIGINT handler.
Stop ==
    /\ UNCHANGED nonAgentVars
    /\ running
    /\ agentPc # "exited"
    /\ running' = FALSE
    /\ UNCHANGED <<reconnect_delay, agentPc, outcomes, waits>>

InitAgent ==
    /\ GatewayStart /\ ChecksStart(DefaultChecks) /\ SchedulerStart
    /\ AgentStart /\ UpdaterStart(None) /\ StoreStart

NextAgent ==
    \/ LoopTest
    \/ ConnectFails
    \/ ConnectSucceeds
    \/ AuthRaises
    \/ AuthUnexpected
    \/ AuthSucceeds
    \/ RunLoopEnds
    \/ StartSleep
    \/ EndSleep
    \/ Stop

SpecAgent == InitAgent /\ [][NextAgent]_vars

(***************************************************************************)
(* Agent self-update: AutoUpdater.perform_update, the update branch of     *)
(* run_loop that reports its result, and the server's receipt of it.       *)
(* The result's started_at and completed_at timestamps are left out.       *)
(***************************************************************************)
\* The agent whose update is followed, and the handler of its connection.
AgentHostname == "web1"
UpdaterConn == 1

\* What a download can return: a release, or bytes altered on the way.
Contents == {"agent-1.0.0", "agent-1.1.0", "tampered"}

\* The __version__ line of a script; the altered bytes are a changed 1.1.0.
VersionOf(script) ==
    CASE script = "agent-1.0.0" -> "1.0.0"
      [] script = "agent-1.1.0" -> "1.1.0"
      [] OTHER -> "1.1.0"

\* hashlib.sha256(content).hexdigest(): lower-case hex, one per content.
Sha256(bytes) ==
    CASE bytes = "agent-1.0.0" -> "0a0a"
      [] bytes = "agent-1.1.0" -> "1b1b"
      [] OTHER -> "2c2c"

\* str.lower on the hex strings in play.
Lower(str) ==
    CASE str = "0A0A" -> "0a0a"
      [] str = "1B1B" -> "1b1b"
      [] str = "2C2C" -> "2c2c"
      [] OTHER -> str

\* The characters of the version strings in play; a version string is
\* compared as the sequence of its characters.
Chars(v) ==
    CASE v = "1.0.0" -> <<"1", ".", "0", ".", "0">>
      [] v = "1.1.0" -> <<"1", ".", "1", ".", "0">>
      [] v = "0.0.0" -> <<"0", ".", "0", ".", "0">>
      [] OTHER -> <<"u", "n", "k", "n", "o", "w", "n">>

\* v.lstrip('v'): every leading v is removed.
RECURSIVE lstrip_v(_)
lstrip_v(s) ==
    IF s # <<>> /\ Head(s) = "v" THEN lstrip_v(Tail(s)) ELSE s

\* v.split('.'): the parts between the dots, one more than there are dots.
RECURSIVE split(_)
split(s) ==
    LET dots == {i \in 1..Len(s) : s[i] = "."}
    IN  IF dots = {} THEN <<s>>
        ELSE LET d == CHOOSE i \in dots : \A j \in dots : i <= j
             IN  <<SubSeq(s, 1, d - 1)>> \o split(SubSeq(s, d + 1, Len(s)))

DecimalDigits == {"0", "1", "2", "3", "4", "5", "6", "7", "8", "9"}

DigitValue(c) ==
    CASE c = "0" -> 0 [] c = "1" -> 1 [] c = "2" -> 2 [] c = "3" -> 3
      [] c = "4" -> 4 [] c = "5" -> 5 [] c = "6" -> 6 [] c = "7" -> 7
      [] c = "8" -> 8 [] OTHER -> 9

\* int(part) of a string of decimal digits.
RECURSIVE DecimalValue(_)
DecimalValue(part) ==
    IF part = <<>> THEN 0
    ELSE 10 * DecimalValue(SubSeq(part, 1, Len(part) - 1))
             + DigitValue(part[Len(part)])

\* try: int(part) except ValueError: 0.  Over the characters in play int
\* raises ValueError for the empty string and for any character that is
\* not a decimal digit.
int_or_zero(part) ==
    IF part # <<>> /\ \A i \in 1..Len(part) : part[i] \in DecimalDigits
    THEN DecimalValue(part)
    ELSE 0

\* parse_version inside _version_compare: the parts are padded with 0 to
\* three and cut to three.
parse_version(v) ==
    LET segs  == split(lstrip_v(v))
        parts == [i \in 1..Len(segs) |-> int_or_zero(segs[i])]
    IN  [i \in 1..3 |-> IF i <= Len(parts) THEN parts[i] ELSE 0]

\* Mutant: equal versions compare as greater.
version_compare_GreaterOrEqual(v1, v2) ==
    LET a == parse_version(v1)
        b == parse_version(v2)
        differ == {i \in 1..3 : a[i] # b[i]}
    IN  IF differ = {} THEN 1
        ELSE LET i == CHOOSE j \in differ : \A k \in differ : j <= k
             IN  IF a[i] > b[i] THEN 1 ELSE 0 - 1

\* AutoUpdater._version_compare, on the characters of the two strings.
version_compare(v1, v2) ==
    LET a == parse_version(v1)
        b == parse_version(v2)
        differ == {i \in 1..3 : a[i] # b[i]}
    IN  IF differ = {} THEN 0
        ELSE LET i == CHOOSE j \in differ : \A k \in differ : j <= k
             IN  IF a[i] > b[i] THEN 1 ELSE 0 - 1

\* Manifests the version endpoint may serve.
DownloadUrl == "https://server/agent/download"

Manifests ==
    {[version |-> v, url |-> DownloadUrl, sha256 |-> h, dependencies |-> d] :
        v \in {"1.0.0", "1.1.0"}, h \in {"1b1b", "1B1B"},
        d \in {<<>>, <<"websockets">>}}
    \cup {[version |-> "1.1.0", url |-> DownloadUrl, sha256 |-> "1b1b"],
          [version |-> "1.1.0", sha256 |-> "1b1b"],
          [version |-> "1.1.0", url |-> DownloadUrl],
          [url |-> DownloadUrl, sha256 |-> "1b1b"]}

\* Mutant: the checksum comparison accepts everything.
DigestsMatch_Always(actual_sha256, expected_sha256) == TRUE

\* not (actual_sha256.lower() != expected_sha256.lower())
DigestsMatch(actual_sha256, expected_sha256) ==
    Lower(actual_sha256) = Lower(expected_sha256)

\* The message of the ValueError raised on a mismatch.
ChecksumError(expected_sha256, actual_sha256) ==
    "Checksum mismatch: expected " \o expected_sha256 \o ", got " \o actual_sha256

\* The except branch of perform_update: the error is put in the result.
Failed(res, error_msg) == [res EXCEPT !.error = error_msg]

\* run_loop: check_for_update returns a manifest newer than the running
\* version and perform_update begins, up to the start of the download.
BeginUpdate(info) ==
    /\ UNCHANGED <<gatewayVars, nonUpdateVars>>
    /\ updPc = "idle"
    /\ ~restarting
    /\ snap.n < MaxHistory
    /\ version_compare(Chars(Get(info, "version", "0.0.0")),
                       Chars(current_version)) > 0
    /\ update_info' = info
    /\ content' = None
    /\ snap' = [n |-> snap.n + 1, installed |-> installed, backup |-> backup,
                deps_runs |-> deps_runs, current_version |-> current_version,
                restarts |-> restarts]
    /\ LET res == [success |-> FALSE, from_version |-> current_version,
                   to_version |-> Get(info, "version", "unknown"),
                   error |-> None]
       IN  IF ~Truthy(Get(info, "url", None)) \/ ~Truthy(Get(info, "sha256", None))
           THEN /\ result' = Failed(res, "Missing download URL or SHA256 in update info")
                /\ updPc' = "return"
                /\ UNCHANGED tmp_file
           ELSE /\ result' = res
                /\ tmp_file' = ""
                /\ updPc' = "downloading"
    /\ UNCHANGED <<current_version, installed, backup, deps_runs, restarting,
                   restarts, wire, sentResults>>

\* urlopen and read succeed: the bytes are written to the temporary file.
Download(bytes) ==
    /\ UNCHANGED <<gatewayVars, nonUpdateVars>>
    /\ updPc = "downloading"
    /\ content' = bytes
    /\ tmp_file' = bytes
    /\ updPc' = "verifying"
    /\ UNCHANGED <<current_version, installed, backup, deps_runs, update_info,
                   result, restarting, restarts, wire, sentResults, snap>>

\* urlopen or read raises: the except branch removes the temporary file.
DownloadFails ==
    /\ UNCHANGED <<gatewayVars, nonUpdateVars>>
    /\ updPc = "downloading"
    /\ result' = Failed(result, "download failed")
    /\ tmp_file' = None
    /\ updPc' = "return"
    /\ UNCHANGED <<current_version, installed, backup, deps_runs, update_info,
                   content, restarting, restarts, wire, sentResults, snap>>

\* The digest of the content is compared with the manifest's sha256.
VerifyChecksum ==
    /\ UNCHANGED <<gatewayVars, nonUpdateVars>>
    /\ updPc = "verifying"
    /\ LET actual_sha256 == Sha256(content)
           expected_sha256 == update_info.sha256
       IN  IF ~DigestsMatch(actual_sha256, expected_sha256)
           THEN /\ tmp_file' = None
                /\ result' = Failed(result,
                                    ChecksumError(expected_sha256, actual_sha256))
                /\ updPc' = "return"
           ELSE /\ updPc' = "dependencies"
                /\ UNCHANGED <<tmp_file, result>>
    /\ UNCHANGED <<current_version, installed, backup, deps_runs, update_info,
                   content, restarting, restarts, wire, sentResults, snap>>

\* if dependencies: await self._update_dependencies(dependencies)
UpdateDependencies ==
    /\ UNCHANGED <<gatewayVars, nonUpdateVars>>
    /\ updPc = "dependencies"
    /\ deps_runs' = IF Get(update_info, "dependencies", <<>>) # <<>>
                    THEN deps_runs + 1 ELSE deps_runs
    /\ updPc' = "backup"
    /\ UNCHANGED <<current_version, installed, backup, tmp_file, update_info,
                   content, result, restarting, restarts, wire, sentResults,
                   snap>>

\* shutil.copy2(agent_script_path, backup_path)
BackupScript ==
    /\ UNCHANGED <<gatewayVars, nonUpdateVars>>
    /\ updPc = "backup"
    /\ backup' = installed
    /\ updPc' = "move"
    /\ UNCHANGED <<current_version, installed, tmp_file, deps_runs, update_info,
                   content, result, restarting, restarts, wire, sentResults,
                   snap>>

\* shutil.move(tmp_path, agent_script_path), chmod, result['success'] = True
MoveScript ==
    /\ UNCHANGED <<gatewayVars, nonUpdateVars>>
    /\ updPc = "move"
    /\ installed' = tmp_file
    /\ tmp_file' = None
    /\ result' = [result EXCEPT !.success = TRUE]
    /\ updPc' = "restart"
    /\ UNCHANGED <<current_version, backup, deps_runs, update_info, content,
                   restarting, restarts, wire, sentResults, snap>>

\* The copy or the move raises (an OSError): the except branch removes the
\* temporary file, which still exists.
InstallRaises ==
    /\ UNCHANGED <<gatewayVars, nonUpdateVars>>
    /\ updPc \in {"backup", "move"}
    /\ result' = Failed(result, "install failed")
    /\ tmp_file' = None
    /\ updPc' = "return"
    /\ UNCHANGED <<current_version, installed, backup, deps_runs, update_info,
                   content, restarting, restarts, wire, sentResults, snap>>

\* _schedule_restart, awaited inside perform_update: systemctl restart is
\* accepted and systemd signals the service; the coroutine goes on until the
\* process is gone.
RestartInitiated ==
    /\ UNCHANGED <<gatewayVars, nonUpdateVars>>
    /\ updPc = "restart"
    /\ restarting' = TRUE
    /\ restarts' = restarts + 1
    /\ updPc' = "return"
    /\ UNCHANGED <<current_version, installed, backup, tmp_file, deps_runs,
                   update_info, content, result, wire, sentResults, snap>>

\* _schedule_restart: systemctl fails or raises; the error is only logged.
RestartFails ==
    /\ UNCHANGED <<gatewayVars, nonUpdateVars>>
    /\ updPc = "restart"
    /\ updPc' = "return"
    /\ UNCHANGED <<current_version, installed, backup, tmp_file, deps_runs,
                   update_info, content, result, restarting, restarts, wire,
                   sentResults, snap>>

\* run_loop: perform_update has returned and the result is sent; on a closed
\* transport the send raises ConnectionClosed and the result is dropped.
SendResult ==
    /\ UNCHANGED <<gatewayVars, nonUpdateVars>>
    /\ updPc = "return"
    /\ IF ws[UpdaterConn] = "open"
       THEN /\ wire' = Append(wire, [type |-> "update_result", result |-> result])
            /\ sentResults' = Append(sentResults,
                   [result |-> result, update_info |-> update_info,
                    content |-> content])
       ELSE UNCHANGED <<wire, sentResults>>
    /\ updPc' = "idle"
    /\ UNCHANGED <<current_version, installed, backup, tmp_file, deps_runs,
                   update_info, content, result, restarting, restarts, snap>>

\* systemd ends the old process and starts the installed script.
ProcessReplaced ==
    /\ UNCHANGED <<gatewayVars, nonUpdateVars>>
    /\ restarting
    /\ updPc \in {"return", "idle"}
    /\ current_version' = VersionOf(installed)
    /\ restarting' = FALSE
    /\ updPc' = "restarted"
    /\ UNCHANGED <<installed, backup, tmp_file, deps_runs, update_info, content,
                   result, restarts, wire, sentResults, snap>>

\* The server's handler receives the agent's next message.
DeliverMessage ==
    /\ UNCHANGED nonUpdateVars
    /\ wire # <<>>
    /\ message_loop(UpdaterConn, Head(wire))
    /\ wire' = Tail(wire)
    /\ UNCHANGED <<current_version, installed, backup, tmp_file, deps_runs,
                   update_info, content, result, updPc, restarting, restarts,
                   sentResults, snap>>

\* The agent's handler is in its message loop, its transport registered.
UpdaterConnected ==
    /\ connections = <<[hostname |-> AgentHostname, conn |-> UpdaterConn]>>
    /\ pc = [c \in Conns |-> IF c = UpdaterConn THEN "loop" ELSE "idle"]
    /\ hname = [c \in Conns |-> IF c = UpdaterConn THEN AgentHostname ELSE None]
    /\ ws = [c \in Conns |-> IF c = UpdaterConn THEN "open" ELSE "none"]
    /\ closeCode = [c \in Conns |-> 0]
    /\ agents = {AgentHostname}
    /\ regSeq = <<UpdaterConn>>
    /\ authFailed = [c \in Conns |-> FALSE]
    /\ presented = [c \in Conns |-> IF c = UpdaterConn
                              THEN AgentApiKey ELSE None]
    /\ updateHistory = <<>>

\* The agent is in run_loop.
AgentConnected ==
    /\ running = TRUE
    /\ reconnect_delay = InitialDelay
    /\ agentPc = "connected"
    /\ outcomes = <<>>
    /\ waits = <<>>

InitUpdate ==
    /\ UpdaterConnected /\ ChecksStart(DefaultChecks) /\ SchedulerStart
    /\ AgentConnected
    /\ \E previous \in {None, "agent-0.9.0"} : UpdaterStart(previous)
    /\ StoreStart

NextUpdate ==
    \/ \E info \in Manifests : BeginUpdate(info)
    \/ \E bytes \in Contents : Download(bytes)
    \/ DownloadFails
    \/ VerifyChecksum
    \/ UpdateDependencies
    \/ BackupScript
    \/ MoveScript
    \/ InstallRaises
    \/ RestartInitiated
    \/ RestartFails
    \/ SendResult
    \/ ProcessReplaced
    \/ DeliverMessage
    \/ TransportError(UpdaterConn)
    \/ Finally(UpdaterConn)

SpecUpdate == InitUpdate /\ [][NextUpdate]_vars

(***************************************************************************)
(* Agent version publishing: create_agent_version, set_current_version and *)
(* deprecate_version.  Every request has its own database session; the     *)
(* handlers run interleaved at their awaits.  The database is SQLite: a    *)
(* SELECT reads the committed rows, the first write of a transaction takes *)
(* the single write lock and the commit releases it.                       *)
(***************************************************************************)
\* Version strings and row ids a request may name.
VersionNames == {"1.0.0", "1.2.0"}
VersionIds == 1..3

\* select(AgentVersion).where(AgentVersion.version == v) finds a row.
VersionExists(rows, v) == \E i \in 1..Len(rows) : rows[i].version = v

\* update(AgentVersion).where(is_current == True).values(is_current=False)
UnsetCurrent(rows) ==
    [i \in 1..Len(rows) |-> [rows[i] EXCEPT !.is_current = FALSE]]

\* The flush of a loaded row: only attributes whose new value differs from
\* the loaded one are written.
FlushRow(row, loaded, is_current, is_deprecated) ==
    [row EXCEPT
        !.is_current = IF loaded.is_current # is_current
                       THEN is_current ELSE @,
        !.is_deprecated = IF loaded.is_deprecated # is_deprecated
                          THEN is_deprecated ELSE @]

\* The request of slot r ends with an HTTP status.
Respond(r, code) == [vreq EXCEPT ![r].pc = "idle", ![r].status = code]

\* create_agent_version up to its first write: the duplicate check.
PublishSelect(r, v, current) ==
    /\ UNCHANGED nonVersionVars
    /\ vreq[r].pc = "idle"
    /\ Len(versions) < Cardinality(VersionIds)
    /\ LET req == [NoRequest EXCEPT !.kind = "publish", !.version = v,
                                    !.is_current = current]
       IN  IF VersionExists(versions, v)
           THEN vreq' = [vreq EXCEPT ![r] = [req EXCEPT !.status = 400]]
           ELSE vreq' = [vreq EXCEPT ![r] =
                    [req EXCEPT !.pc = IF current THEN "unset" ELSE "commit"]]
    /\ UNCHANGED <<versions, vlock, vpending>>

\* The UPDATE that unsets the current flag, in create_agent_version and in
\* set_current_version: it opens the request's write transaction.
UnsetOthers(r) ==
    /\ UNCHANGED nonVersionVars
    /\ vreq[r].pc = "unset"
    /\ vlock = 0
    /\ vlock' = r
    /\ vpending' = UnsetCurrent(versions)
    /\ vreq' = [vreq EXCEPT ![r].pc = "commit"]
    /\ UNCHANGED versions

\* db.add(new_version); db.commit(): the INSERT fails on the unique version
\* column when another request has published the same version meanwhile.
PublishCommit(r) ==
    /\ UNCHANGED nonVersionVars
    /\ vreq[r].kind = "publish"
    /\ vreq[r].pc = "commit"
    /\ vlock \in {0, r}
    /\ LET rows == IF vlock = r THEN vpending ELSE versions
       IN  IF VersionExists(rows, vreq[r].version)
           THEN /\ vreq' = Respond(r, 500)
                /\ UNCHANGED versions
           ELSE /\ vreq' = Respond(r, 200)
                /\ versions' = Append(rows,
                       [version |-> vreq[r].version,
                        is_current |-> vreq[r].is_current,
                        is_deprecated |-> FALSE])
    /\ vlock' = 0
    /\ vpending' = <<>>

\* set_current_version up to its first write: 404, 400 or go on.  The UPDATE
\* that follows also clears the flag on the loaded row.
SetCurrentSelect(r, id) ==
    /\ UNCHANGED nonVersionVars
    /\ vreq[r].pc = "idle"
    /\ LET req == [NoRequest EXCEPT !.kind = "set_current", !.id = id]
       IN  IF id > Len(versions)
           THEN vreq' = [vreq EXCEPT ![r] = [req EXCEPT !.status = 404]]
           ELSE IF versions[id].is_deprecated
           THEN vreq' = [vreq EXCEPT ![r] = [req EXCEPT !.status = 400]]
           ELSE vreq' = [vreq EXCEPT ![r] =
                    [req EXCEPT !.pc = "unset",
                                !.loaded = [is_current |-> FALSE,
                                            is_deprecated |-> FALSE]]]
    /\ UNCHANGED <<versions, vlock, vpending>>

\* version.is_current = True; db.commit()
SetCurrentCommit(r) ==
    /\ UNCHANGED nonVersionVars
    /\ vreq[r].kind = "set_current"
    /\ vreq[r].pc = "commit"
    /\ vlock = r
    /\ versions' = [vpending EXCEPT ![vreq[r].id] =
                       FlushRow(@, vreq[r].loaded, TRUE, vreq[r].loaded.is_deprecated)]
    /\ vreq' = Respond(r, 200)
    /\ vlock' = 0
    /\ vpending' = <<>>

\* deprecate_version up to its commit: 404 or the row is loaded.
DeprecateSelect(r, id) ==
    /\ UNCHANGED nonVersionVars
    /\ vreq[r].pc = "idle"
    /\ LET req == [NoRequest EXCEPT !.kind = "deprecate", !.id = id]
       IN  IF id > Len(versions)
           THEN vreq' = [vreq EXCEPT ![r] = [req EXCEPT !.status = 404]]
           ELSE vreq' = [vreq EXCEPT ![r] =
                    [req EXCEPT !.pc = "commit",
                                !.loaded = [is_current |-> versions[id].is_current,
                                            is_deprecated |-> versions[id].is_deprecated]]]
    /\ UNCHANGED <<versions, vlock, vpending>>

\* version.is_deprecated = True; version.is_current = False; db.commit()
DeprecateCommit(r) ==
    /\ UNCHANGED nonVersionVars
    /\ vreq[r].kind = "deprecate"
    /\ vreq[r].pc = "commit"
    /\ vlock = 0
    /\ versions' = [versions EXCEPT ![vreq[r].id] =
                       FlushRow(@, vreq[r].loaded, FALSE, TRUE)]
    /\ vreq' = Respond(r, 200)
    /\ UNCHANGED <<vlock, vpending>>

InitVersions ==
    /\ GatewayStart /\ ChecksStart(DefaultChecks) /\ SchedulerStart
    /\ AgentStart /\ UpdaterStart(None) /\ StoreStart

NextVersions ==
    \/ \E r \in Requests, v \in VersionNames, current \in BOOLEAN :
          PublishSelect(r, v, current)
    \/ \E r \in Requests : UnsetOthers(r)
    \/ \E r \in Requests : PublishCommit(r)
    \/ \E r \in Requests, id \in VersionIds : SetCurrentSelect(r, id)
    \/ \E r \in Requests : SetCurrentCommit(r)
    \/ \E r \in Requests, id \in VersionIds : DeprecateSelect(r, id)
    \/ \E r \in Requests : DeprecateCommit(r)

SpecVersions == InitVersions /\ [][NextVersions]_vars

(***************************************************************************)
(* Threat retention: MonitoringService.aggregate_old_events, run hourly by *)
(* monitoring_retention_task in one session, and the inserts of            *)
(* record_threat_event that other sessions commit meanwhile.  An event is  *)
(* its country code (None when GeoIP has no answer), its event_time and    *)
(* its source IP; events of one country share one name and location.       *)
(***************************************************************************)
Countries == {"US", None}
SourceIps == {"1.2.3.4", "5.6.7.8"}

\* func.strftime('%Y-%m-%d %H:00:00', event_time)
HourBucket(t) == t \div TicksPerHour

\* The rows of a bag that satisfy Keep.
BagWhere(B, Keep(_)) == [e \in {x \in BagToSet(B) : Keep(x)} |-> B[e]]

\* WHERE event_time < cutoff AND country_code IS NOT NULL
Selected(B, cutoff) ==
    BagWhere(B, LAMBDA e : e.event_time < cutoff /\ e.country_code # None)

\* The grouped SELECT: one row per country and hour with count(id) and
\* count(distinct source_ip).
GroupedRows(B, cutoff) ==
    LET old == Selected(B, cutoff)
        keys == {<<e.country_code, HourBucket(e.event_time)>> : e \in BagToSet(old)}
        InKey(k) == BagWhere(old, LAMBDA e : e.country_code = k[1]
                                           /\ HourBucket(e.event_time) = k[2])
    IN  {[country_code |-> k[1], hour_bucket |-> k[2],
          event_count |-> BagCardinality(InKey(k)),
          unique_ips |-> Cardinality({e.source_ip : e \in BagToSet(InKey(k))})]
         : k \in keys}

\* The loop over the grouped rows: add to the existing aggregate of the
\* country and hour, or insert a new one.
UpsertAll(aggregates, rows) ==
    LET Matches(a, g) == a.country_code = g.country_code
                         /\ a.hour_bucket = g.hour_bucket
        Updated(a) ==
            IF \E g \in rows : Matches(a, g)
            THEN LET g == CHOOSE x \in rows : Matches(a, x)
                 IN  [a EXCEPT !.event_count = @ + g.event_count,
                               !.unique_ips = @ + g.unique_ips]
            ELSE a
    IN  {Updated(a) : a \in aggregates}
        \cup {g \in rows : ~\E a \in aggregates : Matches(a, g)}

\* Mutant: the raw rows are kept.
DeleteOld_KeepsRaw(B, cutoff) == B

\* delete(ThreatEvent).where(ThreatEvent.event_time < cutoff)
DeleteOld(B, cutoff) == BagWhere(B, LAMBDA e : ~(e.event_time < cutoff))

\* delete(CountryAggregate).where(hour_bucket < aggregate_cutoff)
PruneAggregates(aggregates, aggregate_cutoff) ==
    {a \in aggregates : ~(a.hour_bucket * TicksPerHour < aggregate_cutoff)}

\* Half an hour passes.  A run of the job is short beside a tick, so the
\* clock advances only between runs, while the task sleeps.
RetentionTick ==
    /\ UNCHANGED nonRetentionVars
    /\ rclock < MaxClock
    /\ jobPc = "sleep"
    /\ rclock' = rclock + 1
    /\ justEnded' = FALSE
    /\ lastJob' = IF lastJob.outcome = "running" THEN lastJob ELSE NoJob
    /\ UNCHANGED <<raw, agg, ingested, jobPc, wakeAt, jobCutoff, jobGroups,
                   jobRaw, jobAgg, jobLock, prevRun>>

\* record_threat_event: db.add(event); db.commit() in a handler's session.
\* The event_time is the time of the log line: now, or an hour ago for a
\* line that is delivered late.
RecordThreatEvent(country, t, ip) ==
    /\ UNCHANGED nonRetentionVars
    /\ ingested < MaxEvents
    /\ t \in {rclock, rclock - TicksPerHour}
    /\ t >= 0
    /\ ~jobLock
    /\ raw' = raw (+) SetToBag({[country_code |-> country, event_time |-> t,
                                 source_ip |-> ip]})
    /\ ingested' = ingested + 1
    /\ prevRun' = NoPrevRun
    /\ lastJob' = IF lastJob.outcome = "running"
                  THEN [lastJob EXCEPT !.rerun = FALSE, !.undisturbed = FALSE]
                  ELSE NoJob
    /\ justEnded' = FALSE
    /\ UNCHANGED <<rclock, agg, jobPc, wakeAt, jobCutoff, jobGroups, jobRaw,
                   jobAgg, jobLock>>

\* The sleep of an hour ends; aggregate_old_events computes its cutoff and
\* runs the grouped SELECT.
JobSelect ==
    /\ UNCHANGED nonRetentionVars
    /\ jobPc = "sleep"
    /\ rclock >= wakeAt
    /\ jobCutoff' = rclock - RawRetentionTicks
    /\ jobGroups' = GroupedRows(raw, rclock - RawRetentionTicks)
    /\ lastJob' = [NoJob EXCEPT !.outcome = "running", !.rawBefore = raw,
                                !.aggBefore = agg,
                                !.cutoff = rclock - RawRetentionTicks,
                                !.rerun = prevRun.quiet,
                                !.prev_cutoff = prevRun.cutoff,
                                !.prev_aggregate_cutoff = prevRun.aggregate_cutoff,
                                !.undisturbed = TRUE]
    /\ jobPc' = "write"
    /\ justEnded' = FALSE
    /\ UNCHANGED <<rclock, raw, agg, ingested, wakeAt, jobRaw, jobAgg, jobLock,
                   prevRun>>

\* The upserts, the delete of the old events and the delete of the old
\* aggregates: one transaction, which holds the write lock from its first
\* write on.
JobWrite ==
    /\ UNCHANGED nonRetentionVars
    /\ jobPc = "write"
    /\ jobLock' = TRUE
    /\ jobAgg' = PruneAggregates(UpsertAll(agg, jobGroups),
                                 rclock - AggRetentionTicks)
    /\ jobRaw' = DeleteOld(raw, jobCutoff)
    /\ lastJob' = [lastJob EXCEPT !.rawLocked = raw,
                                  !.aggregate_cutoff = rclock - AggRetentionTicks]
    /\ jobPc' = "commit"
    /\ justEnded' = FALSE
    /\ UNCHANGED <<rclock, raw, agg, ingested, wakeAt, jobCutoff, jobGroups,
                   prevRun>>

\* await self.db.commit(); the task sleeps for the next hour.
JobCommit ==
    /\ UNCHANGED nonRetentionVars
    /\ jobPc = "commit"
    /\ raw' = jobRaw
    /\ agg' = jobAgg
    /\ jobLock' = FALSE
    /\ jobRaw' = EmptyBag
    /\ jobAgg' = {}
    /\ jobGroups' = {}
    /\ lastJob' = [lastJob EXCEPT !.outcome = "committed"]
    /\ justEnded' = TRUE
    /\ prevRun' = [quiet |-> TRUE, cutoff |-> lastJob.cutoff,
                    aggregate_cutoff |-> lastJob.aggregate_cutoff]
    /\ jobPc' = "sleep"
    /\ wakeAt' = rclock + TicksPerHour
    /\ UNCHANGED <<rclock, ingested, jobCutoff>>

\* A statement or the commit raises: the session is closed without a commit
\* and the task goes back to sleep.
JobFails ==
    /\ UNCHANGED nonRetentionVars
    /\ jobPc \in {"write", "commit"}
    /\ jobLock' = FALSE
    /\ jobRaw' = EmptyBag
    /\ jobAgg' = {}
    /\ jobGroups' = {}
    /\ lastJob' = [lastJob EXCEPT !.outcome = "failed"]
    /\ justEnded' = TRUE
    /\ jobPc' = "sleep"
    /\ wakeAt' = rclock + TicksPerHour
    /\ UNCHANGED <<rclock, raw, agg, ingested, jobCutoff, prevRun>>

InitRetention ==
    /\ GatewayStart /\ ChecksStart(DefaultChecks) /\ SchedulerStart
    /\ AgentStart /\ UpdaterStart(None) /\ StoreStart

NextRetention ==
    \/ RetentionTick
    \/ \E country \in Countries, t \in 0..MaxClock, ip \in SourceIps :
          RecordThreatEvent(country, t, ip)
    \/ JobSelect
    \/ JobWrite
    \/ JobCommit
    \/ JobFails

SpecRetention == InitRetention /\ [][NextRetention]_vars

(***************************************************************************)
(* Threat log parser: WebSocketManager.parse_ufw_log.  A token is a key    *)
(* and the text that follows "KEY=" up to the next blank.                  *)
(***************************************************************************)
\* Tokens of a line: addresses, ports (also malformed ones) and a protocol.
Tokens ==
    {[key |-> "SRC", value |-> v] : v \in {"1.2.3.4", ""}}
    \cup {[key |-> "DST", value |-> "5.6.7.8"]}
    \cup {[key |-> "SPT", value |-> v] : v \in {"22", "x22"}}
    \cup {[key |-> "DPT", value |-> "443"]}
    \cup {[key |-> "PROTO", value |-> "TCP"]}
    \cup {[key |-> "IN", value |-> "eth0"]}

\* How a line begins: an ISO 8601 time, a syslog time, or something else.
Prefixes == {"iso", "syslog", "other"}

RECURSIVE SeqsUpTo(_, _)
SeqsUpTo(S, n) ==
    IF n = 0 THEN {<<>>}
    ELSE SeqsUpTo(S, n - 1)
         \cup {Append(q, x) : q \in {r \in SeqsUpTo(S, n - 1) : Len(r) = n - 1},
                              x \in S}

Lines ==
    {[marker |-> m, prefix |-> p, tokens |-> q] :
        m \in BOOLEAN, p \in Prefixes, q \in SeqsUpTo(Tokens, MaxTokens)}

\* What (\S+) captures of a value: all of it, and nothing matches if empty.
NonBlank(value) == value

\* What (\d+) captures of a value: its leading digits.
LeadingDigits(value) ==
    CASE value = "22" -> "22"
      [] value = "443" -> "443"
      [] value = "1.2.3.4" -> "1"
      [] value = "5.6.7.8" -> "5"
      [] OTHER -> ""

\* int() of a string of digits.
ToInt(digits) ==
    CASE digits = "22" -> 22
      [] digits = "443" -> 443
      [] digits = "1" -> 1
      [] digits = "5" -> 5

\* re.search(KEY=(pattern)): the capture of the first place in the line
\* where KEY= is followed by a match of the pattern, or "" for no match.
RECURSIVE Search(_, _, _, _)
Search(tokens, key, Capture(_), i) ==
    IF i > Len(tokens) THEN ""
    ELSE IF tokens[i].key = key /\ Capture(tokens[i].value) # ""
    THEN Capture(tokens[i].value)
    ELSE Search(tokens, key, Capture, i + 1)

\* The timestamp: read from the line, or datetime.utcnow() as the fallback.
ParseTimestamp(prefix) ==
    IF prefix \in {"iso", "syslog"} THEN "from_line" ELSE "utcnow"

\* Mutant: the marker is not required.
MarkerMissing_Ignored(line) == FALSE

\* if "[UFW BLOCK]" not in log_line: return None
MarkerMissing(line) == ~line.marker

parse_ufw_log(line) ==
    IF MarkerMissing(line) THEN <<>>
    ELSE LET src_match == Search(line.tokens, "SRC", NonBlank, 1)
             dst_match == Search(line.tokens, "DST", NonBlank, 1)
             spt_match == Search(line.tokens, "SPT", LeadingDigits, 1)
             dpt_match == Search(line.tokens, "DPT", LeadingDigits, 1)
             proto_match == Search(line.tokens, "PROTO", NonBlank, 1)
         IN  IF src_match = "" THEN <<>>
             ELSE <<[timestamp |-> ParseTimestamp(line.prefix),
                     source_ip |-> src_match,
                     source_port |-> IF spt_match # "" THEN ToInt(spt_match)
                                     ELSE NoPort,
                     dest_ip |-> IF dst_match # "" THEN dst_match ELSE None,
                     dest_port |-> IF dpt_match # "" THEN ToInt(dpt_match)
                                   ELSE NoPort,
                     protocol |-> IF proto_match # "" THEN proto_match
                                  ELSE None,
                     raw_log |-> line]>>

\* parse_ufw_log returns.
ParserReturns ==
    /\ parsePc = "called"
    /\ parsed' = parse_ufw_log(log_line)
    /\ parsePc' = "returned"
    /\ UNCHANGED log_line
    /\ UNCHANGED nonParseVars

\* A caller has passed one of the lines.
InitParser ==
    /\ GatewayStart /\ ChecksStart(DefaultChecks) /\ SchedulerStart
    /\ AgentStart /\ UpdaterStart(None)
    /\ VersionsStart /\ RetentionStart /\ IngestStart /\ StallStart
    /\ LaterStart
    /\ log_line \in Lines
    /\ parsed = <<>>
    /\ parsePc = "called"

NextParser == ParserReturns

SpecParser == InitParser /\ [][NextParser]_vars

(***************************************************************************)
(* Threat ingestion: the ufw_logs branch of agent_websocket's message loop *)
(* and MonitoringService.record_threat_event.                              *)
(***************************************************************************)
\* GeoIPService.lookup: the country of an address, none for a private one.
GeoLookup(ip) == IF ip = "1.2.3.4" THEN "US" ELSE None

\* Lines an agent sends: two that parse, one without the marker, one
\* without a source address.
BatchLines ==
    { [marker |-> TRUE, prefix |-> "iso",
       tokens |-> <<[key |-> "SRC", value |-> "1.2.3.4"],
                    [key |-> "SPT", value |-> "22"]>>],
      [marker |-> TRUE, prefix |-> "other",
       tokens |-> <<[key |-> "SRC", value |-> "10.0.0.1"],
                    [key |-> "DST", value |-> "5.6.7.8"]>>],
      [marker |-> FALSE, prefix |-> "syslog",
       tokens |-> <<[key |-> "SRC", value |-> "1.2.3.4"]>>],
      [marker |-> TRUE, prefix |-> "syslog",
       tokens |-> <<[key |-> "DST", value |-> "5.6.7.8"]>>] }

\* The ThreatEvent row record_threat_event adds for a parsed entry.
ThreatEventRow(hostname, log_entry) ==
    [agent_hostname |-> hostname,
     source_ip |-> log_entry.source_ip,
     source_port |-> log_entry.source_port,
     dest_ip |-> log_entry.dest_ip,
     dest_port |-> log_entry.dest_port,
     protocol |-> log_entry.protocol,
     country_code |-> GeoLookup(log_entry.source_ip),
     raw_log |-> log_entry.raw_log,
     event_time |-> log_entry.timestamp]

\* Mutant: a line that fails ends the batch.
NextLine_AbortOnFailure(i, n, failed) == IF failed THEN n + 1 ELSE i + 1

\* for log_line in logs: the loop goes on to the next line whether the line
\* parsed or not and whether record_threat_event raised or not.
NextLine(i, n, failed) == i + 1

\* receive_json returns the ufw_logs message.
ReceiveLogs(c) ==
    /\ pc[c] = "loop"
    /\ ws[c] = "open"
    /\ ingestConn = 0
    /\ lineIdx' = 1
    /\ ingestConn' = c
    /\ pc' = [pc EXCEPT ![c] = "ufw_logs"]
    /\ UNCHANGED <<raw, logs, persist_fails, nonIngestVars>>

\* One pass of the loop over the lines: parse, and record if it parsed.
IngestLine(c) ==
    /\ pc[c] = "ufw_logs"
    /\ ingestConn = c
    /\ lineIdx <= Len(logs)
    /\ LET entry == parse_ufw_log(logs[lineIdx])
           raised == entry # <<>> /\ persist_fails[lineIdx]
       IN  /\ raw' = IF entry # <<>> /\ ~raised
                     THEN raw (+) SetToBag({ThreatEventRow(hname[c], entry[1])})
                     ELSE raw
           /\ lineIdx' = NextLine(lineIdx, Len(logs), entry = <<>> \/ raised)
    /\ UNCHANGED <<pc, logs, persist_fails, ingestConn, nonIngestVars>>

\* After the loop: update_agent_status, and back to receive_json.
EndBatch(c) ==
    /\ pc[c] = "ufw_logs"
    /\ ingestConn = c
    /\ lineIdx > Len(logs)
    /\ pc' = [pc EXCEPT ![c] = "loop"]
    /\ UNCHANGED <<raw, logs, persist_fails, lineIdx, ingestConn, nonIngestVars>>

\* Two agents past the key check of their auth messages.
TwoHandlersAuthenticated ==
    /\ connections = <<>>
    /\ pc = [c \in Conns |-> IF c \in {1, 2} THEN "register" ELSE "idle"]
    /\ hname = [c \in Conns |-> IF c \in {1, 2} THEN HostOfConn(c) ELSE None]
    /\ ws = [c \in Conns |-> IF c \in {1, 2} THEN "open" ELSE "none"]
    /\ closeCode = [c \in Conns |-> 0]
    /\ agents = {}
    /\ regSeq = <<>>
    /\ authFailed = [c \in Conns |-> FALSE]
    /\ presented = [c \in Conns |-> IF c \in {1, 2} THEN AgentApiKey ELSE None]
    /\ updateHistory = <<>>

\* The batches an agent may send, and for each line whether its
\* persistence fails.
Batches == SeqsUpTo(BatchLines, MaxBatch)

InitIngest ==
    /\ TwoHandlersAuthenticated /\ ChecksStart(DefaultChecks) /\ SchedulerStart
    /\ AgentStart /\ UpdaterStart(None)
    /\ VersionsStart /\ RetentionStart /\ ParserStart /\ StallStart
    /\ LaterStart
    /\ logs \in Batches
    /\ persist_fails \in [1..Len(logs) -> BOOLEAN]
    /\ lineIdx = 1
    /\ ingestConn = 0

NextIngest ==
    \/ \E c \in Conns : RegisterAgent(c)
    \/ \E c \in Conns : ReceiveLogs(c)
    \/ \E c \in Conns : IngestLine(c)
    \/ \E c \in Conns : EndBatch(c)

SpecIngest == InitIngest /\ [][NextIngest]_vars

(***************************************************************************)
(* Check administration: ServiceCheckService.create_check, update_check,   *)
(* and the enable, disable and run endpoints of routers/service_checks.py. *)
(***************************************************************************)
\* The checks table with no row.
NoChecks == {[id \in {} |-> NewCheck(id, 2, 6, 300, None)]}

\* The ids of the checks that are created.
CreatedIds == {1}

\* create_check: a row with the next id and the given threshold.
create_check(failure_threshold) ==
    /\ UNCHANGED nonCheckVars
    /\ Cardinality(DOMAIN checks) < Cardinality(CreatedIds)
    /\ LET id == Cardinality(DOMAIN checks) + 1
       IN  checks' = [i \in DOMAIN checks \cup {id} |->
                         IF i = id
                         THEN NewCheck(id, failure_threshold, 6, 300, None)
                         ELSE checks[i]]
    /\ UNCHANGED <<now, results, alerts, lastOp>>

\* Mutant: every column may be set through update_check.
AllowedFields_All ==
    {"is_enabled", "interval_seconds", "failure_threshold",
     "alert_interval_hours", "assigned_agent", "consecutive_failures"}

\* allowed_fields of update_check, of the columns the model keeps.
AllowedFields ==
    {"is_enabled", "interval_seconds", "failure_threshold",
     "alert_interval_hours", "assigned_agent"}

\* Keyword arguments of update_check: what the update schema, the enable and
\* the disable endpoints pass, and one column that is not an allowed field.
UpdateKwargs ==
    {[failure_threshold |-> t] : t \in Thresholds}
    \cup {[is_enabled |-> b] : b \in BOOLEAN}
    \cup {[failure_threshold |-> t, is_enabled |-> TRUE] : t \in Thresholds}
    \cup {[consecutive_failures |-> 0]}

\* for field, value in kwargs.items(): if field in allowed_fields: setattr
SetFields(check, kwargs) ==
    [f \in DOMAIN check |->
        IF f \in DOMAIN kwargs /\ f \in AllowedFields THEN kwargs[f]
        ELSE check[f]]

update_check(check_id, kwargs) ==
    /\ UNCHANGED nonCheckVars
    /\ check_id \in DOMAIN checks
    /\ checks' = [checks EXCEPT ![check_id] = SetFields(@, kwargs)]
    /\ lastOp' = NoOp
    /\ UNCHANGED <<now, results, alerts>>

\* run_check_now: check.last_check_time = None
run_check_now(check_id) ==
    /\ UNCHANGED nonCheckVars
    /\ check_id \in DOMAIN checks
    /\ checks' = [checks EXCEPT ![check_id].last_check_time = NoTime]
    /\ lastOp' = NoOp
    /\ UNCHANGED <<now, results, alerts>>

InitCheckAdmin ==
    /\ GatewayStart /\ ChecksStart(NoChecks) /\ SchedulerStart
    /\ AgentStart /\ UpdaterStart(None) /\ StoreStart

NextCheckAdmin ==
    \/ \E t \in Thresholds : create_check(t)
    \/ \E id \in CheckIds, ok \in BOOLEAN : record_result(id, "web1", ok)
    \/ \E id \in CheckIds, kwargs \in UpdateKwargs : update_check(id, kwargs)
    \/ \E id \in CheckIds : run_check_now(id)

SpecCheckAdmin == InitCheckAdmin /\ [][NextCheckAdmin]_vars

(***************************************************************************)
(* A scheduler send that does not complete: send_to_agent awaits           *)
(* websocket.send_json with no timeout, inside the dispatch loop.          *)
(***************************************************************************)
\* The agent the head of the assignments is sent to.
TargetOf(gs) ==
    IF gs[1].key = "any" THEN PickAgent(connected_agents, round_robin_index)
    ELSE gs[1].key

\* send_json of a dispatch neither returns nor raises: the scheduler task
\* stays in the await.
SendNeverCompletes ==
    /\ tickPc = "dispatch"
    /\ groups # <<>>
    /\ DictHas(connections, TargetOf(groups))
    /\ blockedOn' = TargetOf(groups)
    /\ round_robin_index' =
           IF groups[1].key = "any" THEN NextIndex(round_robin_index)
           ELSE round_robin_index
    /\ groups' = IF groups[1].key = "any" THEN AfterOne(groups) ELSE Tail(groups)
    /\ tickPc' = "blocked"
    /\ rotation' = IF groups[1].key = "any"
                   THEN Counted(rotation, TargetOf(groups))
                   ELSE rotation
    /\ UNCHANGED <<ticks, connected_agents, tickAny, indexAtTick, sent>>
    /\ UNCHANGED <<gatewayVars, checkVars, agentVars, updateVars, versionVars,
                   retentionVars, parseVars, ingestVars, laterVars>>

InitDispatch ==
    /\ HandlersAuthenticated /\ ChecksStart(SchedulerChecks)
    /\ SchedulerStart /\ AgentStart /\ UpdaterStart(None) /\ StoreStart

NextDispatch ==
    \/ \E c \in Conns : RegisterAgent(c)
    \/ \E c \in Conns : TransportError(c)
    \/ \E c \in Conns : Finally(c)
    \/ \E enabled \in BOOLEAN : TickStart(enabled)
    \/ TickAssign
    \/ \E written \in BOOLEAN : DispatchAny(written)
    \/ \E written \in BOOLEAN : DispatchPinned(written)
    \/ SendNeverCompletes

SpecDispatch == InitDispatch /\ [][NextDispatch]_vars

(***************************************************************************)
(* The periodic background loops: service_check_scheduler_task and         *)
(* monitoring_retention_task (backend/app/main.py) and                     *)
(* AlertChecker._run_loop (backend/app/services/alert_checker.py).  Each   *)
(* is `while ...: try: <sleep and work> except CancelledError: break       *)
(* except Exception: <log>; sleep(backoff)`.  The scheduler and the        *)
(* retention task sleep first and then work; the evaluator works first     *)
(* and then sleeps.                                                        *)
(***************************************************************************)
\* Where the except Exception branch leaves the loop: it logs and sleeps.
AfterException_Ends == "ended"
AfterException == "backoff"

\* The iterations counted, up to the bound.
CountTick(n) == Min(n + 1, MaxLoopTicks)

\* What follows the work of an iteration that returned: the evaluator sleeps
\* wait_time, the others are back at the top of the loop, which is their sleep.
AfterIteration(l) == "sleep"

\* asyncio.sleep of the period returns.
SleepEnds(l) ==
    /\ loopPc[l] = "sleep"
    /\ loopPc' = [loopPc EXCEPT ![l] = "iteration"]
    /\ loopTicks' = [loopTicks EXCEPT ![l] = CountTick(@)]
    /\ UNCHANGED <<loopRaised, shutdown>>
    /\ UNCHANGED <<coreVars, versionVars, retentionVars, parseVars, ingestVars,
                   stallVars, frameVars, evalVars, extraVars>>

\* The work of the iteration ends without an exception (a `continue`, a
\* `break` out of the session block, or the end of the body).
IterationReturns(l) ==
    /\ loopPc[l] = "iteration"
    /\ loopPc' = [loopPc EXCEPT ![l] = AfterIteration(l)]
    /\ UNCHANGED <<loopTicks, loopRaised, shutdown>>
    /\ UNCHANGED <<coreVars, versionVars, retentionVars, parseVars, ingestVars,
                   stallVars, frameVars, evalVars, extraVars>>

\* The work of the iteration raises an Exception: the loop logs it and
\* starts the backoff sleep.
IterationRaises(l) ==
    /\ loopPc[l] = "iteration"
    /\ loopPc' = [loopPc EXCEPT ![l] = AfterException]
    /\ loopRaised' = [loopRaised EXCEPT ![l] = TRUE]
    /\ UNCHANGED <<loopTicks, shutdown>>
    /\ UNCHANGED <<coreVars, versionVars, retentionVars, parseVars, ingestVars,
                   stallVars, frameVars, evalVars, extraVars>>

\* The backoff sleep returns: the loop is at its top again.
BackoffEnds(l) ==
    /\ loopPc[l] = "backoff"
    /\ loopPc' = [loopPc EXCEPT ![l] = LoopTop(l)]
    /\ loopTicks' = [loopTicks EXCEPT
                       ![l] = IF LoopTop(l) = "iteration" THEN CountTick(@) ELSE @]
    /\ UNCHANGED <<loopRaised, shutdown>>
    /\ UNCHANGED <<coreVars, versionVars, retentionVars, parseVars, ingestVars,
                   stallVars, frameVars, evalVars, extraVars>>

\* lifespan's shutdown half begins: AlertChecker.stop and task.cancel follow.
Shutdown ==
    /\ ~shutdown
    /\ shutdown' = TRUE
    /\ UNCHANGED <<loopPc, loopTicks, loopRaised>>
    /\ UNCHANGED <<coreVars, versionVars, retentionVars, parseVars, ingestVars,
                   stallVars, frameVars, evalVars, extraVars>>

\* task.cancel(): CancelledError is raised at the await the loop is in; in
\* the try block it is caught and breaks the loop, in the backoff sleep it
\* ends the task.
Cancelled(l) ==
    /\ shutdown
    /\ loopPc[l] # "ended"
    /\ loopPc' = [loopPc EXCEPT ![l] = "ended"]
    /\ UNCHANGED <<loopTicks, loopRaised, shutdown>>
    /\ UNCHANGED <<coreVars, versionVars, retentionVars, parseVars, ingestVars,
                   stallVars, frameVars, evalVars, extraVars>>

InitLoops ==
    /\ GatewayStart /\ ChecksStart(DefaultChecks) /\ SchedulerStart
    /\ AgentStart /\ UpdaterStart(None) /\ StoreStart

NextLoops ==
    \/ \E l \in Loops : SleepEnds(l)
    \/ \E l \in Loops : IterationReturns(l)
    \/ \E l \in Loops : IterationRaises(l)
    \/ \E l \in Loops : BackoffEnds(l)
    \/ Shutdown
    \/ \E l \in Loops : Cancelled(l)

\* Timers fire, an iteration's work ends one way or the other, and a
\* cancelled task is scheduled.
FairLoops ==
    \A l \in Loops :
        /\ WF_vars(SleepEnds(l))
        /\ WF_vars(BackoffEnds(l))
        /\ WF_vars(IterationReturns(l) \/ IterationRaises(l))
        /\ WF_vars(Cancelled(l))

SpecLoops == InitLoops /\ [][NextLoops]_vars /\ FairLoops

(***************************************************************************)
(* Frames in the message loop of agent_websocket                           *)
(* (backend/app/routers/monitoring.py, 748-859).  A frame is the text the  *)
(* agent sent: a JSON object, another JSON value, or text that is not      *)
(* JSON.  The loop body is inside one try whose except branches end the    *)
(* handler.  Well-formed ufw_logs batches are the ingest actions above.    *)
(***************************************************************************)
JsonObject(data) == [json |-> "object", data |-> data]

\* The results message of the agent (situation-room-agent.py, 1014-1017).
ServiceCheckResultMsg ==
    [type |-> "service_check_result",
     results |-> <<[check_id |-> 1, is_success |-> TRUE]>>]

\* The frames a connection may send: the loop's messages, a results message,
\* a ufw_logs message whose logs is a number, a JSON array, broken JSON.
Frames ==
    {JsonObject(d) : d \in LoopMsgs}
    \cup {JsonObject(ServiceCheckResultMsg)}
    \cup {JsonObject([type |-> "ufw_logs", logs |-> [t |-> "int"]])}
    \cup {[json |-> "array"], [json |-> "invalid"]}

\* Whether one pass of the loop raises on the frame: receive_json raises on
\* text that is not JSON, data.get on a value that is not an object, and
\* len(logs) on a logs that is not a list.
Raises(frame) ==
    \/ frame.json = "invalid"
    \/ frame.json = "array"
    \/ /\ Get(frame.data, "type", None) = "ufw_logs"
       /\ Get(frame.data, "logs", [t |-> "list"]).t # "list"

\* One frame arrives on connection c: the loop body runs on it, or the
\* exception it raises is logged by the outer except and the handler goes to
\* its finally block; the server closes the transport of a handler that
\* returned.
ReceiveFrame(c, frame) ==
    /\ pc[c] = "loop"
    /\ ws[c] = "open"
    /\ framesSeen < MaxFrames
    /\ framesSeen' = framesSeen + 1
    /\ lastFrame' = <<[conn |-> c, frame |-> frame, n |-> framesSeen + 1]>>
    /\ IF Raises(frame)
       THEN /\ ws' = [ws EXCEPT ![c] = "closed"]
            /\ pc' = [pc EXCEPT ![c] = "finally"]
            /\ UNCHANGED <<connections, hname, closeCode, agents, regSeq,
                           authFailed, presented, updateHistory>>
       ELSE message_loop(c, frame.data)
    /\ UNCHANGED <<checkVars, schedVars, agentVars, updateVars, versionVars,
                   retentionVars, parseVars, ingestVars, stallVars, loopVars,
                   evalVars, extraVars>>

InitProtocol ==
    /\ TwoHandlersAuthenticated /\ ChecksStart(DefaultChecks)
    /\ SchedulerStart /\ AgentStart /\ UpdaterStart(None) /\ StoreStart

NextProtocol ==
    \/ \E c \in Conns : Accept(c)
    \/ \E c \in Conns, msg \in AuthMsgs : ReceiveAuth(c, msg)
    \/ \E c \in Conns : RegisterAgent(c)
    \/ \E c \in Conns, frame \in Frames : ReceiveFrame(c, frame)
    \/ \E c \in Conns : TransportError(c)
    \/ \E c \in Conns : Finally(c)

\* The handler's own steps are taken; what the peer sends and when the
\* transport fails is up to the peer.
FairProtocol ==
    \A c \in Conns : WF_vars(RegisterAgent(c)) /\ WF_vars(Finally(c))

SpecProtocol == InitProtocol /\ [][NextProtocol]_vars /\ FairProtocol

\* Two clients from their connection on: the first message of each, then
\* the frames of those that were let into the message loop.
AuthConns == {1, 2}

InitAuth ==
    /\ GatewayStart /\ ChecksStart(DefaultChecks) /\ SchedulerStart
    /\ AgentStart /\ UpdaterStart(None) /\ StoreStart

NextAuth ==
    \/ \E c \in AuthConns : Accept(c)
    \/ \E c \in AuthConns, msg \in AuthMsgs : ReceiveAuth(c, msg)
    \/ \E c \in AuthConns : RegisterAgent(c)
    \/ \E c \in AuthConns, frame \in Frames : ReceiveFrame(c, frame)
    \/ \E c \in AuthConns : TransportError(c)
    \/ \E c \in AuthConns : Finally(c)

SpecAuth == InitAuth /\ [][NextAuth]_vars

(***************************************************************************)
(* Alert evaluator: AlertChecker._check_all_alerts, _check_rule, the host  *)
(* loops and _trigger_alert (backend/app/services/alert_checker.py), with  *)
(* NotificationService.send_discord and send_email                         *)
(* (backend/app/services/notifications.py).  Time is in minutes.           *)
(***************************************************************************)
\* The enabled alert rules: rule 1 notifies Discord and has a cooldown of one
\* minute, rule 2 notifies by email and has a cooldown of two.
RuleIds == {1, 2}

AlertRules ==
    [r \in RuleIds |->
        [id |-> r, cooldown_minutes |-> r, notify_discord |-> (r = 1),
         notify_email |-> (r = 2)]]

\* AlertSettings: both channels are enabled and configured.
AlertSettings == [discord_enabled |-> TRUE, email_enabled |-> TRUE]

\* The hosts the metrics source reports, in its order.
MetricHosts == <<"web1", "web2">>

\* How the webhook post of send_discord ends: status 204, another status,
\* or an exception of the HTTP client.
Deliveries == {"delivered", "rejected", "raised"}

\* Mutant: an exception of the post leaves send_discord.
DiscordRaises_Propagates(delivery) == delivery = "raised"

\* Whether send_discord raises: the post is inside try/except Exception.
DiscordRaises(delivery) == FALSE

\* send_discord's return value: True on status 204 only.
send_discord(delivery) == delivery = "delivered"

\* send_email: not implemented, returns False.
send_email == FALSE

\* The SELECT of _check_rule: the hostnames of the rule's unresolved alerts
\* with triggered_at >= utcnow() - cooldown_minutes.
RecentAlerts(rule, t) ==
    { alertHistory[i].hostname : i \in
        { j \in 1..Len(alertHistory) :
            /\ alertHistory[j].rule_id = rule.id
            /\ alertHistory[j].triggered_at >= t - rule.cooldown_minutes
            /\ ~alertHistory[j].is_resolved } }

\* Mutant: no host counts as already alerted.
already_alerted_Never(recent, hostname) == FALSE

\* already_alerted = any(a.hostname == hostname ... for a in recent_alerts)
already_alerted(recent, hostname) == hostname \in recent

\* The AlertHistory row _trigger_alert adds; triggered_at defaults to utcnow.
AlertHistoryRow(rule, hostname, discord_sent, email_sent, t) ==
    [ rule_id |-> rule.id, hostname |-> hostname, triggered_at |-> t,
      is_resolved |-> FALSE, discord_sent |-> discord_sent,
      email_sent |-> email_sent ]

\* The evaluator's position once the current rule is done with, normally or
\* by an exception that _check_all_alerts caught.
NextRule ==
    /\ evalRules' = Tail(evalRules)
    /\ evalHosts' = <<>>
    /\ recent_alerts' = {}
    /\ evalPc' = IF Tail(evalRules) = <<>> THEN "idle" ELSE "rule"

\* The evaluator's position after one host of the rule.
NextHost ==
    IF Tail(evalHosts) = <<>> THEN NextRule
    ELSE /\ evalHosts' = Tail(evalHosts)
         /\ UNCHANGED <<evalRules, recent_alerts, evalPc>>

nonEvalVars ==
    <<coreVars, versionVars, retentionVars, parseVars, ingestVars, stallVars,
      loopVars, frameVars, extraVars>>

\* _check_all_alerts: the enabled rules are selected.
StartPass ==
    /\ evalPc = "idle"
    /\ evalRules' = <<1, 2>>
    /\ evalPc' = "rule"
    /\ lastTrigger' = <<>>
    /\ UNCHANGED <<evalClock, alertHistory, evalHosts, recent_alerts>>
    /\ UNCHANGED nonEvalVars

\* _check_rule up to the host loop: the recent alerts of the rule are read
\* and the hosts are fetched.
StartRule ==
    /\ evalPc = "rule"
    /\ recent_alerts' = RecentAlerts(AlertRules[Head(evalRules)], evalClock)
    /\ evalHosts' = MetricHosts
    /\ evalPc' = "hosts"
    /\ lastTrigger' = <<>>
    /\ UNCHANGED <<evalClock, alertHistory, evalRules>>
    /\ UNCHANGED nonEvalVars

\* _trigger_alert(rule, hostname): the notifications are attempted, then the
\* row is added and committed.  An exception ends the rule.
trigger_alert(rule, hostname, delivery) ==
    LET discord == rule.notify_discord /\ AlertSettings.discord_enabled
        email == rule.notify_email /\ AlertSettings.email_enabled
    IN  /\ lastTrigger' = <<[rule_id |-> rule.id, hostname |-> hostname,
                             delivery |-> delivery, discord |-> discord]>>
        /\ IF discord /\ DiscordRaises(delivery)
           THEN /\ UNCHANGED alertHistory
                /\ NextRule
           ELSE /\ alertHistory' =
                       Append(alertHistory,
                              AlertHistoryRow(rule, hostname,
                                              discord /\ send_discord(delivery),
                                              email /\ send_email, evalClock))
                /\ NextHost

\* One pass of the host loop: a host that is already alerted or whose value
\* is under the threshold is passed over, another triggers the alert.
CheckHost(exceeds, delivery) ==
    /\ evalPc = "hosts"
    /\ LET rule == AlertRules[Head(evalRules)]
           hostname == Head(evalHosts)
       IN  IF ~already_alerted(recent_alerts, hostname) /\ exceeds
           THEN /\ Len(alertHistory) < MaxAlerts
                /\ trigger_alert(rule, hostname, delivery)
           ELSE /\ lastTrigger' = <<>>
                /\ UNCHANGED alertHistory
                /\ NextHost
    /\ UNCHANGED evalClock
    /\ UNCHANGED nonEvalVars

\* The rule's check raises (the metrics source fails, the commit fails):
\* _check_all_alerts logs it and goes on with the next rule.
RuleRaises ==
    /\ evalPc = "hosts"
    /\ NextRule
    /\ lastTrigger' = <<>>
    /\ UNCHANGED <<evalClock, alertHistory>>
    /\ UNCHANGED nonEvalVars

\* POST /history/{alert_id}/resolve on row i.
resolve_alert(i) ==
    /\ i \in 1..Len(alertHistory)
    /\ ~alertHistory[i].is_resolved
    /\ alertHistory' = [alertHistory EXCEPT ![i].is_resolved = TRUE]
    /\ lastTrigger' = <<>>
    /\ UNCHANGED <<evalClock, evalPc, evalRules, evalHosts, recent_alerts>>
    /\ UNCHANGED nonEvalVars

\* A minute passes, wherever the evaluator is.
MinutePasses ==
    /\ evalClock < MaxMinutes
    /\ evalClock' = evalClock + 1
    /\ lastTrigger' = <<>>
    /\ UNCHANGED <<alertHistory, evalPc, evalRules, evalHosts, recent_alerts>>
    /\ UNCHANGED nonEvalVars

InitEvaluator ==
    /\ GatewayStart /\ ChecksStart(DefaultChecks) /\ SchedulerStart
    /\ AgentStart /\ UpdaterStart(None) /\ StoreStart

NextEvaluator ==
    \/ StartPass
    \/ StartRule
    \/ \E exceeds \in BOOLEAN, delivery \in Deliveries : CheckHost(exceeds, delivery)
    \/ RuleRaises
    \/ \E i \in 1..MaxAlerts : resolve_alert(i)
    \/ MinutePasses

SpecEvaluator == InitEvaluator /\ [][NextEvaluator]_vars

(***************************************************************************)
(* The stored status of an agent and the agent-offline rule:               *)
(* MonitoringService.register_agent, update_agent_status, get_all_agents   *)
(* and cleanup_stale_agents (backend/app/services/monitoring.py) and       *)
(* AlertChecker._check_agent_offline.  The rule reads the status column.   *)
(* Time is the evaluator's clock, in minutes.                              *)
(***************************************************************************)
\* config.monitoring.agent_stale_threshold_minutes and
\* agent_offline_threshold_minutes (both configurable), scaled to the model's
\* minutes.
agent_stale_threshold_minutes == 0
agent_offline_threshold_minutes == 1

\* The agents of the offline runs, in the order of the rule's SELECT, and
\* the transport of each.
OfflineHosts == <<"web1", "web2">>

OfflineConn(h) == IF h = "web1" THEN 1 ELSE 2

\* The agent-offline rule: no notification channel, a cooldown of one minute.
OfflineRule ==
    [id |-> 3, cooldown_minutes |-> 1, notify_discord |-> FALSE,
     notify_email |-> FALSE]

HasAgentRow(h) == h \in DOMAIN agentRows

\* The gateway's variables other than the registry.
handlerVars == <<pc, hname, ws, closeCode, agents, regSeq, authFailed,
                 presented, updateHistory>>

nonOfflineVars ==
    <<handlerVars, checkVars, schedVars, agentVars, updateVars, versionVars,
      retentionVars, parseVars, ingestVars, stallVars, loopVars, frameVars,
      moreVars>>

\* agent h authenticates: register_agent writes status online and
\* last_seen, and the handler puts its transport in the registry.
AgentRegisters(h) ==
    /\ ~DictHas(connections, h)
    /\ agentRows' =
           [k \in DOMAIN agentRows \cup {h} |->
               IF k = h THEN [status |-> "online", last_seen |-> evalClock]
               ELSE agentRows[k]]
    /\ connections' = DictSet(connections, h, OfflineConn(h))
    /\ UNCHANGED <<nonOfflineVars, evalVars>>

\* update_agent_status, after a ufw_logs, health_check, ping or update_result
\* message of the connected agent h.
update_agent_status(h) ==
    /\ DictHas(connections, h)
    /\ HasAgentRow(h)
    /\ agentRows' = [agentRows EXCEPT
                       ![h] = [status |-> "online", last_seen |-> evalClock]]
    /\ UNCHANGED <<connections, nonOfflineVars, evalVars>>

\* The transport of h ends: the handler's finally block removes it.
AgentDisconnects(h) ==
    /\ DictHas(connections, h)
    /\ connections' = disconnect(connections, h)
    /\ UNCHANGED <<agentRows, nonOfflineVars, evalVars>>

\* The status get_all_agents derives for a row.
DerivedStatus(row, connected, t) ==
    IF connected THEN "online"
    ELSE IF t - row.last_seen > agent_offline_threshold_minutes THEN "offline"
    ELSE IF t - row.last_seen > agent_stale_threshold_minutes THEN "stale"
    ELSE "online"

\* get_all_agents, in a request whose session get_db commits: the derived
\* status is written to the rows.
get_all_agents ==
    /\ DOMAIN agentRows # {}
    /\ agentRows' =
           [h \in DOMAIN agentRows |->
               [agentRows[h] EXCEPT
                   !.status = DerivedStatus(agentRows[h], DictHas(connections, h),
                                            evalClock)]]
    /\ UNCHANGED <<connections, nonOfflineVars, evalVars>>

\* cleanup_stale_agents, run by the retention task: rows with
\* last_seen < utcnow() - offline threshold that are not offline become so.
cleanup_stale_agents ==
    /\ DOMAIN agentRows # {}
    /\ agentRows' =
           [h \in DOMAIN agentRows |->
               IF /\ agentRows[h].last_seen
                        < evalClock - agent_offline_threshold_minutes
                  /\ agentRows[h].status # "offline"
               THEN [agentRows[h] EXCEPT !.status = "offline"]
               ELSE agentRows[h]]
    /\ UNCHANGED <<connections, nonOfflineVars, evalVars>>

\* The loop of _check_agent_offline over the agents whose status column is
\* offline: an alert is triggered for each that no recent alert names.
RECURSIVE OfflineAlerts(_, _, _)
OfflineAlerts(hosts, recent, history) ==
    IF hosts = <<>> THEN history
    ELSE LET h == Head(hosts)
             fires == /\ HasAgentRow(h)
                      /\ agentRows[h].status = "offline"
                      /\ ~already_alerted(recent, h)
         IN  OfflineAlerts(Tail(hosts), recent,
                 IF fires
                 THEN Append(history,
                             AlertHistoryRow(OfflineRule, h, FALSE, FALSE, evalClock))
                 ELSE history)

\* _check_rule and _check_agent_offline of the agent-offline rule.
check_agent_offline ==
    /\ Len(alertHistory) < MaxAlerts
    /\ alertHistory' =
           OfflineAlerts(OfflineHosts, RecentAlerts(OfflineRule, evalClock),
                         alertHistory)
    /\ UNCHANGED <<evalClock, evalPc, evalRules, evalHosts, recent_alerts,
                   lastTrigger>>
    /\ UNCHANGED <<connections, agentRows, nonOfflineVars>>

InitOffline ==
    /\ GatewayStart /\ ChecksStart(DefaultChecks) /\ SchedulerStart
    /\ AgentStart /\ UpdaterStart(None) /\ StoreStart

NextOffline ==
    \/ \E h \in {"web1", "web2"} : AgentRegisters(h)
    \/ \E h \in {"web1", "web2"} : update_agent_status(h)
    \/ \E h \in {"web1", "web2"} : AgentDisconnects(h)
    \/ get_all_agents
    \/ cleanup_stale_agents
    \/ check_agent_offline
    \/ MinutePasses

SpecOffline == InitOffline /\ [][NextOffline]_vars

(***************************************************************************)
(* The version check of the self-updater on arbitrary version strings:     *)
(* AutoUpdater.check_for_update and the update branch of run_loop.         *)
(***************************************************************************)
\* The characters the version strings are made of, and their length.
VersionAlphabet == {"1", "2", ".", "v"}
MaxVersionLen == 3

VersionStrings == UNION {[1..n -> VersionAlphabet] : n \in 0..MaxVersionLen}

\* check_for_update of an updater running version current, when the
\* endpoint serves a manifest of version server: the manifest is returned
\* when its version compares greater than the running one, else None.
check_for_update ==
    /\ versionCheck.outcome = "none"
    /\ \E server \in VersionStrings, current \in VersionStrings :
          versionCheck' =
              [server_version |-> server, current_version |-> current,
               outcome |-> IF version_compare(server, current) > 0
                           THEN "update_info"
                           ELSE "None"]
    /\ UNCHANGED <<nonMoreVars, readerVars, quietVars>>

\* run_loop: `if update_info:` calls perform_update, which downloads.
perform_update ==
    /\ versionCheck.outcome = "update_info"
    /\ versionCheck' = [versionCheck EXCEPT !.outcome = "downloading"]
    /\ UNCHANGED <<nonMoreVars, readerVars, quietVars>>

\* run_loop: check_for_update returned None and the loop goes on.
LoopGoesOn ==
    /\ versionCheck.outcome = "None"
    /\ versionCheck' = [versionCheck EXCEPT !.outcome = "up_to_date"]
    /\ UNCHANGED <<nonMoreVars, readerVars, quietVars>>

InitCompare ==
    /\ GatewayStart /\ ChecksStart(DefaultChecks) /\ SchedulerStart
    /\ AgentStart /\ UpdaterStart(None) /\ StoreStart

NextCompare ==
    \/ check_for_update
    \/ perform_update
    \/ LoopGoesOn

SpecCompare == InitCompare /\ [][NextCompare]_vars

(***************************************************************************)
(* The agent's firewall-log reader and its reports:                        *)
(* UFWLogReader.read_new_entries and the ufw part of Agent.send_report.    *)
(* Every line of the log is a block line; a line is named by the inode of  *)
(* its file and its number in it, and the offset is counted in lines.      *)
(***************************************************************************)
MaxLines == 3
MaxRotations == 1

\* The firewall writes a block line to the log.
LineLogged ==
    /\ ufw.lines < MaxLines
    /\ ufw' = [ufw EXCEPT !.lines = @ + 1]
    /\ UNCHANGED <<nonMoreVars, compareVars, quietVars>>

\* logrotate replaces the log by a new, empty file.
LogRotated ==
    /\ ufw.inode <= MaxRotations
    /\ ufw' = [ufw EXCEPT !.inode = @ + 1, !.lines = 0]
    /\ UNCHANGED <<nonMoreVars, compareVars, quietVars>>

\* read_new_entries: the offset is reset when the inode differs from the
\* one seen before; the lines from the offset to the end of the file are
\* returned and the offset is moved to the end.
PositionAtRead(r) ==
    IF r.reader_inode # <<>> /\ r.reader_inode[1] # r.inode
    THEN 0
    ELSE r.last_position

read_new_entries(r) ==
    [ entries |-> [i \in 1..(r.lines - PositionAtRead(r)) |->
                      <<r.inode, PositionAtRead(r) + i>>],
      reader  |-> [r EXCEPT !.reader_inode = <<r.inode>>,
                            !.last_position =
                                IF PositionAtRead(r) > r.lines
                                THEN PositionAtRead(r)
                                ELSE r.lines] ]

\* send_report on an open connection: the new lines are read and, if there
\* are any, sent in one ufw_logs message.  written is whether
\* websocket.send returns; otherwise it raises ConnectionClosed, run_loop
\* re-raises it and the connection is given up.
send_report(written) ==
    /\ ufw.conn = "open"
    /\ LET read == read_new_entries(ufw)
       IN  ufw' = IF read.entries = <<>> THEN read.reader
                  ELSE IF written
                  THEN [read.reader EXCEPT !.sent = @ \o read.entries]
                  ELSE [read.reader EXCEPT !.conn = "closed"]
    /\ UNCHANGED <<nonMoreVars, compareVars, quietVars>>

\* Agent.connect: after the backoff the agent connects and authenticates
\* again; the reader object is the one made in Agent.__init__.
Reconnected ==
    /\ ufw.conn = "closed"
    /\ ufw' = [ufw EXCEPT !.conn = "open"]
    /\ UNCHANGED <<nonMoreVars, compareVars, quietVars>>

InitReader ==
    /\ GatewayStart /\ ChecksStart(DefaultChecks) /\ SchedulerStart
    /\ AgentStart /\ UpdaterStart(None) /\ StoreStart

NextReader ==
    \/ LineLogged
    \/ LogRotated
    \/ \E written \in BOOLEAN : send_report(written)
    \/ Reconnected

SpecReader == InitReader /\ [][NextReader]_vars

(***************************************************************************)
(* Quiet hours: the test at the top of AlertChecker._run_loop and the      *)
(* settings it reads (AlertSettings, written by the settings endpoint of   *)
(* backend/app/routers/alerts.py).  The settings row exists and alerts are *)
(* enabled; an optional hour is <<>> (None) or <<h>>.                      *)
(***************************************************************************)
Hours == 0..23

\* settings.quiet_hours_start or 0
OrZero(v) == IF v = <<>> THEN 0 ELSE v[1]

\* start <= current_hour < end
InQuietHours(settings, current_hour) ==
    /\ OrZero(settings.start) <= current_hour
    /\ current_hour < OrZero(settings.end)

\* The settings endpoint stores quiet_hours_enabled, quiet_hours_start and
\* quiet_hours_end of the update.
update_alert_settings ==
    /\ quiet.start = <<>>
    /\ quiet.end = <<>>
    /\ \E enabled \in BOOLEAN, start \in Hours, end \in Hours :
          quiet' = [quiet EXCEPT !.enabled = enabled, !.start = <<start>>,
                                 !.end = <<end>>]
    /\ UNCHANGED <<nonMoreVars, compareVars, readerVars>>

\* One iteration of _run_loop: the pass is skipped when quiet hours are
\* enabled and the test holds for datetime.utcnow().hour; else
\* _check_all_alerts runs.
AlertLoopIteration ==
    /\ quiet' = [quiet EXCEPT !.last =
                    IF quiet.enabled /\ InQuietHours(quiet, quiet.hour)
                    THEN "skipped"
                    ELSE "ran"]
    /\ UNCHANGED <<nonMoreVars, compareVars, readerVars>>

\* The next UTC hour begins.
HourPasses ==
    /\ quiet' = [quiet EXCEPT !.hour = (@ + 1) % 24, !.last = "none"]
    /\ UNCHANGED <<nonMoreVars, compareVars, readerVars>>

InitQuiet ==
    /\ GatewayStart /\ ChecksStart(DefaultChecks) /\ SchedulerStart
    /\ AgentStart /\ UpdaterStart(None) /\ StoreStart

NextQuiet ==
    \/ update_alert_settings
    \/ AlertLoopIteration
    \/ HourPasses

SpecQuiet == InitQuiet /\ [][NextQuiet]_vars

(***************************************************************************)
(* Gateway and registry claims.                                            *)
(***************************************************************************)
\* Position of connection c in the order of registrations, 0 if never tracked.
RegPos(c) ==
    IF \E i \in 1..Len(regSeq) : regSeq[i] = c
    THEN CHOOSE i \in 1..Len(regSeq) : regSeq[i] = c
    ELSE 0

\* C1: for one hostname, once the reconnecting connection b is registered and
\* the handler of the earlier connection a has finished, the registry holds
\* exactly one transport for the hostname and it is b's (no other connection
\* takes part).
C1_ReconnectKeepsNewerTransport ==
    \A a, b \in Conns :
        ( /\ a # b
          /\ RegPos(a) > 0 /\ RegPos(b) > RegPos(a)
          /\ hname[a] = hname[b]
          /\ pc[a] = "done"
          /\ pc[b] = "loop" /\ ws[b] = "open"
          /\ \A c \in Conns \ {a, b} : pc[c] = "idle" )
        => /\ DictHas(connections, hname[b])
           /\ DictGet(connections, hname[b]) = b

\* C2: a connection whose first message fails authentication leaves the
\* Connection Registry and the Agent store exactly as they were: no step of a
\* handler on its authentication-failure exit changes either.
C2_FailedAuthChangesNothing ==
    [][ \A c \in Conns :
          ( /\ authFailed'[c]
            /\ pc[c] # pc'[c]
            /\ pc'[c] \in {"finally", "done"} )
          => (connections' = connections /\ agents' = agents) ]_vars

\* C3: in every reachable state at most one open authenticated transport
\* exists per hostname (registering evicts and closes the prior one).
C3_OneOpenTransportPerHostname ==
    \A h \in Hostnames :
        Cardinality({c \in Conns : pc[c] = "loop" /\ ws[c] = "open" /\ hname[c] = h}) <= 1

(***************************************************************************)
(* Result handling claims.                                                 *)
(***************************************************************************)
\* The alert rows the last handled result added.
AddedAlerts == SubSeq(alerts, lastOp.alertsBefore + 1, Len(alerts))

LastWasFailure == lastOp.id \in CheckIds /\ ~lastOp.is_success

LastWasSuccess == lastOp.id \in CheckIds /\ lastOp.is_success

\* C4: for a check that is not alerting, the failure result that brings
\* consecutive_failures to the failure threshold sets is_alerting and adds
\* exactly one failure alert row; a failure result that leaves the count below
\* the threshold adds no alert row and leaves is_alerting false.
C4_FirstCrossingAlertsOnce ==
    (LastWasFailure /\ ~lastOp.before.is_alerting) =>
        LET after == checks[lastOp.id]
            count == lastOp.before.consecutive_failures + 1
        IN  /\ after.consecutive_failures = count
            /\ (count = after.failure_threshold =>
                    /\ after.is_alerting
                    /\ Len(AddedAlerts) = 1
                    /\ AddedAlerts[1].alert_type = "failure"
                    /\ AddedAlerts[1].check_id = lastOp.id)
            /\ (count < after.failure_threshold =>
                    /\ ~after.is_alerting
                    /\ AddedAlerts = <<>>)

\* C4 witness: threshold 2, the second consecutive failure has just been
\* handled: the check is alerting and the table holds one alert row.
C4_Witness ==
    /\ LastWasFailure /\ ~lastOp.before.is_alerting
    /\ checks[lastOp.id].failure_threshold = 2
    /\ checks[lastOp.id].consecutive_failures = 2
    /\ checks[lastOp.id].is_alerting
    /\ Len(alerts) = 1

\* Failure alerts i < j of one check with no recovery alert of it between.
SameEpisode(i, j) ==
    /\ i < j
    /\ alerts[i].alert_type = "failure" /\ alerts[j].alert_type = "failure"
    /\ alerts[i].check_id = alerts[j].check_id
    /\ \A k \in (i + 1)..(j - 1) :
          ~(alerts[k].check_id = alerts[i].check_id /\ alerts[k].alert_type = "recovery")

\* C5: while a check stays alerting, a failure result less than
\* alert_interval_hours after the last failure alert adds no alert row and one
\* at or after alert_interval_hours adds exactly one; two failure alerts of a
\* check with no recovery alert between them are at least alert_interval_hours
\* apart.
C5_ReAlertOnlyAfterInterval ==
    /\ (LastWasFailure /\ lastOp.before.is_alerting) =>
          LET hours == checks[lastOp.id].alert_interval_hours
              since == lastOp.at - lastOp.before.last_alert_time
          IN  /\ checks[lastOp.id].is_alerting
              /\ (since < hours * SecondsPerHour => AddedAlerts = <<>>)
              /\ (since >= hours * SecondsPerHour =>
                    /\ Len(AddedAlerts) = 1
                    /\ AddedAlerts[1].alert_type = "failure"
                    /\ AddedAlerts[1].check_id = lastOp.id)
    /\ \A i, j \in 1..Len(alerts) :
          SameEpisode(i, j) =>
              alerts[j].alert_time - alerts[i].alert_time
                  >= checks[alerts[i].check_id].alert_interval_hours * SecondsPerHour

\* C5 witness: a failure of an alerting check, exactly alert_interval_hours
\* after its last alert, has just added the second failure alert.
C5_Witness ==
    /\ LastWasFailure /\ lastOp.before.is_alerting
    /\ lastOp.at - lastOp.before.last_alert_time
          = checks[lastOp.id].alert_interval_hours * SecondsPerHour
    /\ Len(AddedAlerts) = 1
    /\ \E i, j \in 1..Len(alerts) : SameEpisode(i, j)

\* C6: a success result sets consecutive_failures to 0 and current_status to
\* passing; if the check was alerting it clears is_alerting and adds exactly
\* one recovery alert row, otherwise it adds no alert row.
C6_SuccessResetsAndRecovers ==
    LastWasSuccess =>
        LET after == checks[lastOp.id]
        IN  /\ after.consecutive_failures = 0
            /\ after.current_status = "passing"
            /\ ~after.is_alerting
            /\ (lastOp.before.is_alerting =>
                    /\ Len(AddedAlerts) = 1
                    /\ AddedAlerts[1].alert_type = "recovery"
                    /\ AddedAlerts[1].check_id = lastOp.id)
            /\ (~lastOp.before.is_alerting => AddedAlerts = <<>>)

\* C6 witness: a success has just been handled for a check that was alerting.
C6_Witness ==
    /\ LastWasSuccess /\ lastOp.before.is_alerting
    /\ lastOp.before.consecutive_failures >= 1
    /\ Len(AddedAlerts) = 1

(***************************************************************************)
(* Scheduler claims.                                                       *)
(***************************************************************************)
\* The round-robin sends of the tick.
AnySends == SelectSeq(sent, LAMBDA m : m.key = "any")

\* How many round-robin sends of the tick went to hostname h.
SentTo(h) == Len(SelectSeq(AnySends, LAMBDA m : m.to = h))

\* The tick has dispatched all of its assignments.
TickComplete == tickPc = "sleep" /\ connected_agents # <<>>

BackoffSchedule(i) == IF i <= 4 THEN <<5, 10, 20, 40>>[i] ELSE 60

\* Every attempt so far failed to connect.
AllConnectsFailed == \A i \in 1..Len(outcomes) : outcomes[i] = "connect_failed"

\* C8: from a fresh agent, when every connection attempt fails the waits
\* before the retries are 5, 10, 20, 40, 60, 60, ...: the delay doubles after
\* each consecutive failure and never exceeds 60; and the wait that follows
\* the failure after a successful authentication is 5.
C8_BackoffSequence ==
    /\ AllConnectsFailed => \A i \in 1..Len(waits) : waits[i] = BackoffSchedule(i)
    /\ \A i \in 1..Len(waits) :
          /\ waits[i] <= 60
          /\ (i > 1 /\ outcomes[i] = "connect_failed") =>
                waits[i] = Min(2 * waits[i - 1], 60)
          /\ outcomes[i] = "session_closed" => waits[i] = 5

\* C8 witness: seven attempts in a row failed to connect and the agent is in
\* its seventh wait.
C8_Witness ==
    /\ AllConnectsFailed
    /\ Len(outcomes) = 7
    /\ Len(waits) = 7
    /\ agentPc = "sleeping"

(***************************************************************************)
(* Self-update claims.                                                     *)
(***************************************************************************)
\* The digest of what was downloaded is not the digest the manifest names.
ChecksumDiffers(bytes, info) ==
    /\ bytes # None
    /\ "sha256" \in DOMAIN info
    /\ Lower(Sha256(bytes)) # Lower(info.sha256)

\* C9: in an update attempt whose downloaded content's SHA-256 differs from
\* the manifest's sha256, the installed artifact and its backup stay as they
\* were when the attempt began, no dependency update runs, no restart is
\* initiated and the running version stays; once the comparison is made the
\* temporary file is gone and the result has success false and the
\* checksum-mismatch error.
C9_MismatchInstallsNothing ==
    ChecksumDiffers(content, update_info) =>
        /\ installed = snap.installed
        /\ backup = snap.backup
        /\ deps_runs = snap.deps_runs
        /\ restarts = snap.restarts
        /\ current_version = snap.current_version
        /\ result.success = FALSE
        /\ updPc # "verifying" =>
              /\ tmp_file = None
              /\ result.error = ChecksumError(update_info.sha256, Sha256(content))

\* C9 witness: perform_update has returned from a mismatching download of a
\* manifest with dependencies, on a host that has a backup file.
C9_Witness ==
    /\ ChecksumDiffers(content, update_info)
    /\ updPc = "return"
    /\ Get(update_info, "dependencies", <<>>) # <<>>
    /\ backup # None
\* A sent result that came from an attempt aborted on a checksum mismatch.
AbortedOnMismatch(entry) ==
    /\ ChecksumDiffers(entry.content, entry.update_info)
    /\ entry.result.success = FALSE

\* The rows the handler has stored for the results received so far: the
\* i-th row stems from the i-th update_result the agent sent.
RowOfSent(i) == updateHistory[i]

\* C10: the update-history row stored for an attempt that a connected agent
\* aborted on a checksum mismatch is a failed row for the agent's hostname
\* whose error message is the checksum-mismatch error and whose from and to
\* versions are those of the attempt.
C10_MismatchRowReportsAttempt ==
    \A i \in 1..Len(updateHistory) :
        AbortedOnMismatch(sentResults[i]) =>
            /\ RowOfSent(i).agent_hostname = AgentHostname
            /\ RowOfSent(i).success = FALSE
            /\ RowOfSent(i).error_message = sentResults[i].result.error
            /\ RowOfSent(i).from_version = sentResults[i].result.from_version
            /\ RowOfSent(i).to_version = sentResults[i].result.to_version

\* C11: every update-history row stored for an update_result the agent
\* sent is keyed by the agent's hostname and its success flag equals the
\* outcome of the attempt, so a successful install is never stored as a
\* failure.
C11_RowSuccessEqualsOutcome ==
    \A i \in 1..Len(updateHistory) :
        /\ RowOfSent(i).agent_hostname = AgentHostname
        /\ RowOfSent(i).success = sentResults[i].result.success


(***************************************************************************)
(* Version publishing claims.                                              *)
(***************************************************************************)
\* The ids of the committed rows marked current.
CurrentIds == {i \in 1..Len(versions) : versions[i].is_current}

\* At most one committed row is current.
AtMostOneCurrent == Cardinality(CurrentIds) <= 1

\* C12: after any interleaving of publish, set-current and deprecate
\* requests at most one AgentVersion is current and no AgentVersion is both
\* current and deprecated.
C12_OneCurrentNeverDeprecated ==
    /\ AtMostOneCurrent
    /\ \A i \in 1..Len(versions) :
          ~(versions[i].is_current /\ versions[i].is_deprecated)


(***************************************************************************)
(* Retention claims.                                                       *)
(***************************************************************************)
\* The sum of the event counts of a set of aggregate rows.
RECURSIVE TotalEvents(_)
TotalEvents(aggregates) ==
    IF aggregates = {} THEN 0
    ELSE LET a == CHOOSE x \in aggregates : TRUE
         IN  a.event_count + TotalEvents(aggregates \ {a})

\* A run of the retention job has just committed.
JustCommitted == justEnded /\ lastJob.outcome = "committed"

\* C13: when the retention job has committed, no raw event older than its
\* cutoff is left and the aggregate event counts have grown by exactly the
\* number of raw events the run removed.
C13_RemovedEventsAreCounted ==
    JustCommitted =>
        /\ \A e \in BagToSet(raw) : ~(e.event_time < lastJob.cutoff)
        /\ TotalEvents(agg) =
              TotalEvents(PruneAggregates(lastJob.aggBefore, lastJob.aggregate_cutoff))
              + (BagCardinality(lastJob.rawLocked) - BagCardinality(raw))

\* Between the previous run and this one no raw event crossed the raw
\* cutoff and no aggregate crossed the aggregate cutoff.
NothingAged ==
    /\ \A e \in BagToSet(lastJob.rawBefore) :
          ~(lastJob.prev_cutoff <= e.event_time /\ e.event_time < lastJob.cutoff)
    /\ \A a \in lastJob.aggBefore :
          ~(lastJob.prev_aggregate_cutoff <= a.hour_bucket * TicksPerHour
            /\ a.hour_bucket * TicksPerHour < lastJob.aggregate_cutoff)

\* C14: a run of the retention job that follows a committed run, with no
\* event inserted and nothing aged past a cutoff in between, leaves the raw
\* and the aggregate table exactly as the first run left them; and a run
\* that fails before its commit, with no event inserted during it, leaves
\* both tables as they were before the run.
C14_RerunAndFailureChangeNothing ==
    /\ (JustCommitted /\ lastJob.rerun /\ NothingAged) =>
          /\ raw = lastJob.rawBefore
          /\ agg = lastJob.aggBefore
    /\ (justEnded /\ lastJob.outcome = "failed" /\ lastJob.undisturbed) =>
          /\ raw = lastJob.rawBefore
          /\ agg = lastJob.aggBefore

\* C14 witness: the second of two committed runs has just ended, nothing was
\* inserted or aged in between, and the first run had filled the aggregates.
C14_Witness ==
    /\ JustCommitted
    /\ lastJob.rerun
    /\ NothingAged
    /\ agg # {}


(***************************************************************************)
(* Threat log parser claims.                                               *)
(***************************************************************************)
\* A KEY= field of a line: the key followed by a value of the field's kind,
\* an address or protocol of at least one character, a port that is a number.
IsField(tok, key) ==
    /\ tok.key = key
    /\ IF key \in {"SPT", "DPT"}
       THEN tok.value \in {"22", "443"}
       ELSE tok.value # ""

HasField(line, key) ==
    \E i \in DOMAIN line.tokens : IsField(line.tokens[i], key)

\* The value of the line's first KEY= field.
FieldValue(line, key) ==
    LET i == CHOOSE k \in DOMAIN line.tokens :
                 /\ IsField(line.tokens[k], key)
                 /\ \A j \in 1..(k - 1) : ~IsField(line.tokens[j], key)
    IN  line.tokens[i].value

PortNumber(text) == IF text = "22" THEN 22 ELSE 443

\* C15: parse_ufw_log returns an event exactly for the lines that hold the
\* block marker and a SRC= field; the event's addresses, ports and protocol
\* are the values of the SRC, DST, SPT, DPT and PROTO fields of the line, and
\* an optional field the line does not have is null.
C15_EventIffMarkerAndSrc ==
    parsePc = "returned" =>
        /\ (parsed # <<>>) <=> (log_line.marker /\ HasField(log_line, "SRC"))
        /\ parsed # <<>> =>
            /\ parsed[1].source_ip = FieldValue(log_line, "SRC")
            /\ parsed[1].dest_ip =
                   IF HasField(log_line, "DST")
                   THEN FieldValue(log_line, "DST") ELSE None
            /\ parsed[1].protocol =
                   IF HasField(log_line, "PROTO")
                   THEN FieldValue(log_line, "PROTO") ELSE None
            /\ parsed[1].source_port =
                   IF HasField(log_line, "SPT")
                   THEN PortNumber(FieldValue(log_line, "SPT")) ELSE NoPort
            /\ parsed[1].dest_port =
                   IF HasField(log_line, "DPT")
                   THEN PortNumber(FieldValue(log_line, "DPT")) ELSE NoPort

\* A marked line with addresses, a source port and a protocol, and without
\* a destination port, has been parsed into an event.
C15_Witness ==
    /\ parsePc = "returned"
    /\ log_line.marker
    /\ \A key \in {"SRC", "DST", "SPT", "PROTO"} : HasField(log_line, key)
    /\ ~HasField(log_line, "DPT")
    /\ parsed # <<>>
    /\ parsed[1].source_port = 22
    /\ parsed[1].dest_port = NoPort

(***************************************************************************)
(* Threat ingestion claims.                                                *)
(***************************************************************************)
\* The rows a batch should leave: one per line from position i on that
\* parses and whose persistence does not fail.
RECURSIVE RowsOfBatch(_, _, _, _)
RowsOfBatch(hostname, batch, fails, i) ==
    IF i > Len(batch) THEN EmptyBag
    ELSE LET entry == parse_ufw_log(batch[i])
         IN  (IF entry # <<>> /\ ~fails[i]
              THEN SetToBag({ThreatEventRow(hostname, entry[1])})
              ELSE EmptyBag)
             (+) RowsOfBatch(hostname, batch, fails, i + 1)

BatchHandled == ingestConn # 0 /\ pc[ingestConn] = "loop"

C17_FailingHasAFailure ==
    \A id \in DOMAIN checks :
        checks[id].current_status = "failing" =>
            checks[id].consecutive_failures >= 1

\* A failing check that was then disabled and queued by run-now.
C17_Witness ==
    \E id \in DOMAIN checks :
        /\ checks[id].current_status = "failing"
        /\ ~checks[id].is_enabled
        /\ checks[id].last_check_time = NoTime

\* C18: a check that is alerting has at least failure_threshold consecutive
\* failures, also after update_check has changed the threshold.
C18_AlertingIsAtThreshold ==
    \A id \in DOMAIN checks :
        checks[id].is_alerting =>
            checks[id].consecutive_failures >= checks[id].failure_threshold

(***************************************************************************)
(* Scheduler dispatch claims.                                              *)
(***************************************************************************)
\* Checks of this tick are still to be sent to an agent other than h.
OthersUndispatched(h) ==
    \E i \in 1..Len(groups) :
        IF groups[i].key = "any"
        THEN \E j \in 1..Len(connected_agents) : connected_agents[j] # h
        ELSE groups[i].key # h /\ is_agent_connected(groups[i].key)

\* C19: a send to an agent whose socket never completes the write does not
\* stall the scheduler: it is never left waiting in that send while checks
\* of the same tick are still to be dispatched to other connected agents.
C19_StuckSendDoesNotStall ==
    ~(tickPc = "blocked" /\ OthersUndispatched(blockedOn))

(***************************************************************************)
(* Agent shutdown claims.                                                  *)
(***************************************************************************)
\* A step that starts a connection attempt: the loop test passes and
\* websockets.connect is called.
StartsAttempt == agentPc # "connecting" /\ agentPc' = "connecting"

\* C20: once the stop flag is set, no step starts a connection attempt,
\* whether the flag was set while connecting, in the message loop or
\* during the backoff sleep; an attempt in flight may still complete.
C20_NoAttemptAfterStop == [][~running => ~StartsAttempt]_vars

\* The agent was stopped after at least one backoff sleep and a later
\* attempt, and its loop has exited.
C20_Witness ==
    /\ ~running
    /\ agentPc = "exited"
    /\ Len(waits) >= 1
    /\ Len(outcomes) >= 2

FailedAttempt(outcome) == outcome # "session_closed"

\* C22: attempts that fail, in connecting or in authenticating, count as
\* consecutive failures: the wait after a failed attempt that follows a
\* failed attempt is the doubled (capped) wait of the one before.
C22_FailuresBackOff ==
    \A i \in 1..(Len(waits) - 1) :
        (FailedAttempt(outcomes[i]) /\ FailedAttempt(outcomes[i + 1]))
            => waits[i + 1] = NextDelay(waits[i])

\* C26: as long as stop has not been requested the agent does not leave the
\* reconnect loop: Agent.connect has returned only if running is false.
C26_LeavesLoopOnlyOnStop == agentPc = "exited" => ~running

(***************************************************************************)
(* Message loop claims.                                                    *)
(***************************************************************************)
\* The frame is a JSON object of the given type.
FrameOfType(frame, type) ==
    frame.json = "object" /\ Get(frame.data, "type", None) = type

\* C23: when the gateway has received a service_check_result message, each
\* of its results has been handed to result handling: a ServiceCheckResult
\* row of that check and agent exists.
C23_ResultsAreForwarded ==
    \A i \in 1..Len(lastFrame) :
        FrameOfType(lastFrame[i].frame, "service_check_result") =>
            \A k \in 1..Len(lastFrame[i].frame.data.results) :
                LET r == lastFrame[i].frame.data.results[k]
                IN  ResultRow(r.check_id, hname[lastFrame[i].conn], r.is_success)
                        \in BagToSet(results)

\* C24: the wait for the first message of a connection ends: a connection
\* that is awaiting the auth message eventually is not.
C24_AuthWaitEnds ==
    \A c \in Conns : (pc[c] = "await_auth") ~> (pc[c] # "await_auth")

\* The message types the two sides of the protocol send to the gateway.
RecognizedTypes ==
    {"ufw_logs", "health_check", "ping", "update_result", "service_check_result"}

\* An unknown type, a frame that is not a JSON object, or a recognized type
\* whose payload has the wrong shape.
ProtocolError(frame) ==
    \/ frame.json # "object"
    \/ Get(frame.data, "type", None) \notin RecognizedTypes
    \/ /\ Get(frame.data, "type", None) = "ufw_logs"
       /\ Get(frame.data, "logs", [t |-> "list"]).t # "list"

\* C25: a protocol error received in the message loop does not close the
\* connection: the handler is still in its loop, on an open transport, to
\* process the next message.
C25_ProtocolErrorKeepsConnection ==
    [][\A i \in 1..Len(lastFrame') :
          (framesSeen' # framesSeen /\ ProtocolError(lastFrame'[i].frame)) =>
              /\ pc'[lastFrame'[i].conn] = "loop"
              /\ ws'[lastFrame'[i].conn] = "open"]_vars

(***************************************************************************)
(* Scheduler selection claims.                                             *)
(***************************************************************************)
\* The check is enabled and has no prior run or its interval has elapsed.
EnabledAndElapsed(check, t) ==
    /\ check.is_enabled
    /\ \/ check.last_check_time = NoTime
       \/ t - check.last_check_time >= check.interval_seconds

PinnedStep ==
    /\ tickPc = "dispatch"
    /\ groups # <<>>
    /\ groups[1].key # "any"
    /\ groups' = Tail(groups)

\* C28: a due check pinned to an agent is sent to that agent only, and only
\* if it is connected; otherwise the tick skips it: nothing is sent, the run
\* state of the checks is unchanged and the check is due again at the next
\* tick.
C28_PinnedOnlyToItsAgent ==
    [][PinnedStep =>
          /\ checks' = checks
          /\ IF DictHas(connections, groups[1].key)
             THEN /\ Len(sent') = Len(sent) + 1
                  /\ SubSeq(sent', 1, Len(sent)) = sent
                  /\ sent'[Len(sent')].to = groups[1].key
                  /\ sent'[Len(sent')].ids = groups[1].ids
             ELSE /\ sent' = sent
                  /\ \A k \in 1..Len(groups[1].ids) :
                         \E j \in 1..Len(get_checks_due_for_execution(now + TickSeconds)') :
                             get_checks_due_for_execution(now + TickSeconds)'[j]
                                 = groups[1].ids[k]]_vars

\* A tick has dispatched its unpinned checks and skipped the check pinned to
\* web1, which is not connected.
C28_Witness ==
    /\ tickPc = "sleep"
    /\ groups = <<>>
    /\ sent # <<>>
    /\ ~DictHas(connections, "web1")
    /\ \A i \in 1..Len(sent) : sent[i].key = "any" /\ sent[i].to # "web1"
    /\ 4 \in DOMAIN checks /\ EnabledAndElapsed(checks[4], now)

C30_DeliveryFailureStillRecorded ==
    [][\A k \in 1..Len(lastTrigger') :
          LET call == lastTrigger'[k]
              row == alertHistory'[Len(alertHistory')]
          IN  /\ Len(alertHistory') = Len(alertHistory) + 1
              /\ SubSeq(alertHistory', 1, Len(alertHistory)) = alertHistory
              /\ row.rule_id = call.rule_id /\ row.hostname = call.hostname
              /\ row.discord_sent = (call.discord /\ call.delivery = "delivered")
              /\ ~row.email_sent
              /\ IF Len(evalHosts) > 1
                 THEN evalPc' = "hosts" /\ evalHosts' = Tail(evalHosts)
                      /\ evalRules' = evalRules
                 ELSE evalRules' = Tail(evalRules)
                      /\ evalPc' = IF Len(evalRules) > 1 THEN "rule" ELSE "idle"]_vars

\* An alert whose Discord delivery raised has been recorded with
\* discord_sent false, and the rule's loop is at its next host.
C30_Witness ==
    /\ Len(lastTrigger) = 1
    /\ lastTrigger[1].discord /\ lastTrigger[1].delivery = "raised"
    /\ alertHistory # <<>>
    /\ ~alertHistory[Len(alertHistory)].discord_sent
    /\ evalPc = "hosts"

(***************************************************************************)
(* Agent-offline rule claims.                                              *)
(***************************************************************************)
\* The rows a step added to alert_history.
AddedHistory == (Len(alertHistory) + 1)..Len(alertHistory')

\* C31: the agent-offline rule never fires for an agent that holds a live
\* transport in the registry: every alert of the rule is added with its
\* agent not connected.
C31_OfflineRuleNotForConnected ==
    [][\A i \in AddedHistory :
          alertHistory'[i].rule_id = OfflineRule.id
              => ~DictHas(connections, alertHistory'[i].hostname)]_vars

(***************************************************************************)
(* Self-update ordering claims.                                            *)
(***************************************************************************)
\* The update_result messages of successful attempts sent so far.
SuccessesSent ==
    {i \in 1..Len(sentResults) : sentResults[i].result.success}

\* C32: the restart of the agent service is initiated after the
\* update_result of the successful attempt has been sent: there are never
\* more restarts initiated than successful results sent.
C32_ResultSentBeforeRestart == restarts <= Cardinality(SuccessesSent)

(* Version comparison claims. *)
\* The positions of the dots of a version string.
DotsOf(t) == {i \in 1..Len(t) : t[i] = "."}

\* The text of segment k of a version string (after its leading v's): what
\* stands between dot k-1 and dot k; empty when the string has no segment k.
SegmentText(s, k) ==
    LET t    == lstrip_v(s)
        nth(n) == CHOOSE d \in DotsOf(t) :
                      Cardinality({e \in DotsOf(t) : e <= d}) = n
        from == IF k = 1 THEN 1 ELSE nth(k - 1) + 1
        to   == IF Cardinality(DotsOf(t)) >= k THEN nth(k) - 1 ELSE Len(t)
    IN  IF Cardinality(DotsOf(t)) < k - 1 THEN <<>> ELSE SubSeq(t, from, to)

RECURSIVE PowerOfTen(_)
PowerOfTen(n) == IF n = 0 THEN 1 ELSE 10 * PowerOfTen(n - 1)

RECURSIVE PlaceValues(_, _)
PlaceValues(text, i) ==
    IF i > Len(text) THEN 0
    ELSE DigitValue(text[i]) * PowerOfTen(Len(text) - i)
             + PlaceValues(text, i + 1)

\* The number a segment stands for: its decimal value when it is a
\* non-empty string of digits, 0 when it is missing or not numeric.
SegmentNumber(s, k) ==
    LET text == SegmentText(s, k)
    IN  IF text # <<>> /\ \A i \in 1..Len(text) : text[i] \in DecimalDigits
        THEN PlaceValues(text, 1)
        ELSE 0

\* a is strictly greater than b as major.minor.patch.
StrictlyGreater(a, b) ==
    \E k \in 1..3 :
        /\ SegmentNumber(a, k) > SegmentNumber(b, k)
        /\ \A j \in 1..(k - 1) : SegmentNumber(a, j) = SegmentNumber(b, j)

\* C33: the agent goes on to an update (the manifest is returned and the
\* download starts) only when the manifest version is strictly greater than
\* the running version as numeric major.minor.patch, with non-numeric and
\* missing segments read as 0; the comparison is antisymmetric and a version
\* compares equal to itself.
C33_UpdateOnlyWhenStrictlyGreater ==
    versionCheck.outcome # "none" =>
        LET a == versionCheck.server_version
            b == versionCheck.current_version
        IN  /\ versionCheck.outcome \in {"update_info", "downloading"}
                   => StrictlyGreater(a, b)
            /\ version_compare(a, b) = 0 - version_compare(b, a)
            /\ version_compare(a, a) = 0
            /\ version_compare(b, b) = 0

\* Manifest 12 against a running 2: greater as a number, and the download
\* has started.
C33_Witness ==
    /\ versionCheck.outcome = "downloading"
    /\ versionCheck.server_version = <<"1", "2">>
    /\ versionCheck.current_version = <<"2">>

(* Frame claims on the service_checks table. *)
\* The cached run state of a check row, and its definition.
RunStateFields ==
    {"current_status", "consecutive_failures", "last_check_time",
     "last_success_time", "last_failure_time", "is_alerting",
     "last_alert_time", "alert_count"}

RunState(check) == [f \in RunStateFields |-> check[f]]

Definition(check) == [f \in DOMAIN check \ RunStateFields |-> check[f]]

\* C34: the cached run state of a check is changed only by result handling
\* (the step that adds a result row): a definition update, enable or disable
\* and the manual run-now request leave every run-state field of every check
\* unchanged, and result handling leaves every definition field unchanged.
C34_RunStateChangedOnlyByResults ==
    [][\A id \in DOMAIN checks \cap DOMAIN checks' :
          /\ results' = results => RunState(checks'[id]) = RunState(checks[id])
          /\ results' # results
                 => Definition(checks'[id]) = Definition(checks[id])]_vars

(* Repeated dispatch claims. *)
\* The checks of the tick just completed that were written to an agent.
DeliveredIds ==
    {id \in DOMAIN checks :
        \E k \in 1..Len(sent) :
            /\ sent[k].delivered
            /\ \E j \in 1..Len(sent[k].ids) : sent[k].ids[j] = id}

\* The step is the start of a tick that goes on to select the due checks.
NextTickRuns == tickPc = "sleep" /\ tickPc' = "assign"

LineSent(i) == \E k \in 1..Len(ufw.sent) : ufw.sent[k] = <<ufw.inode, i>>

\* The step is a report that sent its ufw_logs message.
ReportSent == ufw.conn = "open" /\ ufw'.conn = "open" /\ ufw'.sent # ufw.sent

\* C36: once a report has sent its lines, every line of the current log
\* file that the reader has consumed (it lies before the stored offset, so
\* later reports skip it) has been sent in a ufw_logs message, also when an
\* earlier send failed after its read and the agent reconnected; and no line
\* has been sent twice.
C36_NoLineLost ==
    [][ReportSent =>
          /\ \A i \in 1..ufw'.last_position : LineSent(i)'
          /\ \A j, k \in 1..Len(ufw'.sent) :
                ufw'.sent[j] = ufw'.sent[k] => j = k]_vars

(* Authentication claims. *)
\* Connection c presented the configured key and its handler has registered
\* the agent and its transport.
Authenticated(c) ==
    /\ presented[c] = AgentApiKey
    /\ \E i \in 1..Len(regSeq) : regSeq[i] = c

\* C37: every entry of the connection registry belongs to a connection that
\* presented the correct API key in its first message, and every frame the
\* message loop has taken and every update-history row written comes from a
\* connection that had completed authentication.
C37_OnlyAuthenticatedConnections ==
    /\ \A i \in 1..Len(connections) : Authenticated(connections[i].conn)
    /\ \A i \in 1..Len(lastFrame) : Authenticated(lastFrame[i].conn)
    /\ \A i \in 1..Len(updateHistory) :
          \E c \in Conns :
              /\ Authenticated(c)
              /\ hname[c] = updateHistory[i].agent_hostname
    /\ \A c \in Conns : pc[c] \in {"register", "loop"} => presented[c] = AgentApiKey

\* One client was turned away with a wrong key and is not in the registry;
\* the other, with the right key, is registered and its update_result has
\* been stored.
C37_Witness ==
    /\ presented[2] = "key-bad"
    /\ closeCode[2] = 4001
    /\ pc[2] = "done"
    /\ presented[1] = AgentApiKey
    /\ DictHas(connections, hname[1])
    /\ Len(updateHistory) = 1
    /\ Len(lastFrame) = 1
    /\ lastFrame[1].conn = 1

(* Round-robin rotation claims. *)
\* How many unpinned checks the step dispatches: one when it adds a
\* round-robin send to those of the tick.
UnpinnedDispatched ==
    IF Len(sent') = Len(sent) + 1 /\ sent'[Len(sent')].key = "any"
    THEN 1
    ELSE 0

\* C38: the rotating index is kept from tick to tick: over the ticks since
\* the connected-agent list last changed, the numbers of unpinned checks
\* dispatched to any two agents of the list differ by at most 1; and every
\* step advances the index by exactly the number of unpinned checks it
\* dispatches.
C38_RotationPersists ==
    [][/\ \A i, j \in 1..Len(rotation'.agents) :
             rotation'.counts[i] - rotation'.counts[j] <= 1
       /\ round_robin_index' = round_robin_index + UnpinnedDispatched]_vars

\* Two agents over two ticks of three unpinned checks each: the second tick
\* starts at an odd index and each agent has been sent three checks.
C38_Witness ==
    /\ TickComplete
    /\ ticks = 2
    /\ rotation.agents = connected_agents
    /\ Len(connected_agents) = 2
    /\ indexAtTick = 3
    /\ rotation.counts = <<3, 3>>

(* Quiet-hours claims. *)
\* Hour h lies in the window from start (inclusive) to end (exclusive),
\* which wraps past midnight when start > end.
InWindow(h, start, end) ==
    IF start <= end
    THEN start <= h /\ h < end
    ELSE h >= start \/ h < end

\* C39: with quiet hours enabled and a start and end configured, the alert
\* pass of an iteration is skipped when the UTC hour lies in the window from
\* start to end, also for a window that wraps past midnight, and runs when
\* the hour lies outside the window.
C39_NoPassInQuietHours ==
    (quiet.enabled /\ quiet.start # <<>> /\ quiet.end # <<>>) =>
        /\ quiet.last = "ran"
               => ~InWindow(quiet.hour, quiet.start[1], quiet.end[1])
        /\ quiet.last = "skipped"
               => InWindow(quiet.hour, quiet.start[1], quiet.end[1])

(* Retention claims on events written during a run. *)
\* The raw events that have a country: those the grouped SELECT can read.
WithCountry(B) == BagWhere(B, LAMBDA e : e.country_code # None)

\* The step is the commit of a run of the retention job.
CommitStep == jobPc = "commit" /\ lastJob'.outcome = "committed"

\* C40: every raw event with a country that the commit of the retention job
\* removes was in the groups the run had read, also when a handler wrote an
\* event older than the cutoff between the run's read and its delete: the
\* groups count exactly the removed events.
C40_DeletedEventsWereRead ==
    [][CommitStep =>
          BagCardinality(WithCountry(raw)) - BagCardinality(WithCountry(raw'))
              = TotalEvents(jobGroups)]_vars
====
